---- MODULE Spec2Model ----
(***************************************************************************)
(* Grading engine of cli_grader: the assertion protocol                    *)
(* (Assertion::unsafe_assert_cmd), the per-assertion fixture lifecycle     *)
(* (UnitTest::run), and the score aggregation hierarchy                    *)
(* assertion -> unit test -> unit tests -> section -> grading result.      *)
(***************************************************************************)
EXTENDS Integers, Sequences, FiniteSets, TLC

(***************************************************************************)
(* Bounds of the model.                                                    *)
(***************************************************************************)
\* longest expected string (in chars) an assertion of AssertInit declares
MaxChars == 1
\* longest arbitrary byte string a target writes to a piped stream
MaxBytes == 1
\* largest exit code a process reports
MaxCode == 1
\* most sections of a configuration
MaxSections == 2
\* most unit tests of one section
MaxUnitTests == 2
\* most assertions of one unit test
MaxAssertions == 2
\* most assertions of a whole configuration
MaxTotalAssertions == 2
\* number of fixture files, setup commands and teardown commands
NumFiles == 1
NumSetup == 2
NumTeardown == 1
\* most operations applied to a Score outside a run
MaxOperations == 2
\* capacity of a pipe between the engine and a target, in bytes
PipeCapacity == 1
MaxEnvs == 2

\* weights an assertion may carry (u32)
AssertionWeights == {0, 2}
\* weights of the assertion of a single-assertion configuration
SingleAssertionWeights == {2}
\* weights a section may carry (u32)
SectionWeights == {0, 2}
\* bytes a target may write: 'a' and a lone continuation byte
Bytes == {97, 189}
\* chars (Unicode scalar values) an expected string is made of: 'a', U+FFFD
Chars == {97, 65533}

(***************************************************************************)
(* Option<T>                                                               *)
(***************************************************************************)
None == [some |-> FALSE]
Some(v) == [some |-> TRUE, val |-> v]

SeqsUpTo(S, n) == UNION {[1..m -> S] : m \in 0..n}

RECURSIVE Flatten(_)
Flatten(ss) == IF ss = <<>> THEN <<>> ELSE Head(ss) \o Flatten(Tail(ss))

RECURSIVE SumSeq(_)
SumSeq(s) == IF s = <<>> THEN 0 ELSE Head(s) + SumSeq(Tail(s))

(***************************************************************************)
(* Strings and bytes.  A String is a sequence of Unicode scalar values, a  *)
(* process output is a sequence of bytes.                                  *)
(***************************************************************************)
\* str::as_bytes of one char: its UTF-8 encoding
encode_utf8(c) ==
    IF c < 128 THEN <<c>>
    ELSE IF c < 2048 THEN <<192 + (c \div 64), 128 + (c % 64)>>
    ELSE IF c < 65536 THEN
        <<224 + (c \div 4096), 128 + ((c \div 64) % 64), 128 + (c % 64)>>
    ELSE <<240 + (c \div 262144), 128 + ((c \div 4096) % 64),
           128 + ((c \div 64) % 64), 128 + (c % 64)>>

\* String::as_bytes
RECURSIVE as_bytes(_)
as_bytes(s) == IF s = <<>> THEN <<>> ELSE encode_utf8(Head(s)) \o as_bytes(Tail(s))

\* byte i of bs, 0 past the end (safe_get of the lossy decoder)
safe_get(bs, i) == IF i <= Len(bs) THEN bs[i] ELSE 0
is_cont(b) == b >= 128 /\ b <= 191
utf8_char_width(b) ==
    IF b < 128 THEN 1
    ELSE IF b >= 194 /\ b <= 223 THEN 2
    ELSE IF b >= 224 /\ b <= 239 THEN 3
    ELSE IF b >= 240 /\ b <= 244 THEN 4
    ELSE 0

\* is b2 a legal second byte after the lead byte b1 of a 3- or 4-byte form
second_ok(b1, b2) ==
    \/ b1 = 224 /\ b2 >= 160 /\ b2 <= 191
    \/ b1 >= 225 /\ b1 <= 236 /\ is_cont(b2)
    \/ b1 = 237 /\ b2 >= 128 /\ b2 <= 159
    \/ b1 >= 238 /\ b1 <= 239 /\ is_cont(b2)
    \/ b1 = 240 /\ b2 >= 144 /\ b2 <= 191
    \/ b1 >= 241 /\ b1 <= 243 /\ is_cont(b2)
    \/ b1 = 244 /\ b2 >= 128 /\ b2 <= 143

REPLACEMENT_CHARACTER == 65533

\* one decoding step at the head of bs: <<char, number of bytes consumed>>;
\* an invalid sequence yields U+FFFD for its maximal invalid prefix
decode_step(bs) ==
    LET b1 == bs[1]
        b2 == safe_get(bs, 2)
        b3 == safe_get(bs, 3)
        b4 == safe_get(bs, 4)
        w  == utf8_char_width(b1)
    IN  IF w = 1 THEN <<b1, 1>>
        ELSE IF w = 2 THEN
            IF is_cont(b2) THEN <<(b1 - 192) * 64 + (b2 - 128), 2>>
            ELSE <<REPLACEMENT_CHARACTER, 1>>
        ELSE IF w = 3 THEN
            IF ~second_ok(b1, b2) THEN <<REPLACEMENT_CHARACTER, 1>>
            ELSE IF ~is_cont(b3) THEN <<REPLACEMENT_CHARACTER, 2>>
            ELSE <<(b1 - 224) * 4096 + (b2 - 128) * 64 + (b3 - 128), 3>>
        ELSE IF w = 4 THEN
            IF ~second_ok(b1, b2) THEN <<REPLACEMENT_CHARACTER, 1>>
            ELSE IF ~is_cont(b3) THEN <<REPLACEMENT_CHARACTER, 2>>
            ELSE IF ~is_cont(b4) THEN <<REPLACEMENT_CHARACTER, 3>>
            ELSE <<(b1 - 240) * 262144 + (b2 - 128) * 4096
                     + (b3 - 128) * 64 + (b4 - 128), 4>>
        ELSE <<REPLACEMENT_CHARACTER, 1>>

\* String::from_utf8_lossy(bytes).into_owned()
RECURSIVE from_utf8_lossy(_)
from_utf8_lossy(bs) ==
    IF bs = <<>> THEN <<>>
    ELSE LET d == decode_step(bs)
         IN  <<d[1]>> \o from_utf8_lossy(SubSeq(bs, d[2] + 1, Len(bs)))

\* the expected strings an assertion may declare
Strings == SeqsUpTo(Chars, MaxChars)
\* what a target may write to a piped stream: any short byte string, or the
\* exact encoding of a declarable string
ByteStrings == SeqsUpTo(Bytes, MaxBytes) \cup {as_bytes(s) : s \in Strings}

(***************************************************************************)
(* Score (score.rs)                                                        *)
(***************************************************************************)
GradingMode == {"Absolute", "Weighted"}

Absolute(b) == [tag |-> "Absolute", b |-> b]
Weighted(c, m) == [tag |-> "Weighted", current |-> c, max |-> m]
\* the panic of a combination of differently tagged scores
ModeMismatch == [tag |-> "panic"]

\* variant of Score::default: the score of the Weighted mode whatever the
\* mode asked for
default_always_weighted(grading_mode) == Weighted(0, 0)

\* Score::default
default(grading_mode) ==
    IF grading_mode = "Absolute" THEN Absolute(FALSE) ELSE Weighted(0, 0)

\* variant of add_assign: the maximum of the right operand replaces the
\* maximum of the left one
add_assign_overwriting_max(self, rhs) ==
    IF self.tag = "Absolute" /\ rhs.tag = "Absolute" THEN Absolute(self.b /\ rhs.b)
    ELSE IF self.tag = "Weighted" /\ rhs.tag = "Weighted"
        THEN Weighted(self.current + rhs.current, rhs.max)
    ELSE ModeMismatch

\* variant of add_assign: a right operand of the other mode is ignored
add_assign_coercing(self, rhs) ==
    IF self.tag = "Absolute" /\ rhs.tag = "Absolute" THEN Absolute(self.b /\ rhs.b)
    ELSE IF self.tag = "Weighted" /\ rhs.tag = "Weighted"
        THEN Weighted(self.current + rhs.current, self.max + rhs.max)
    ELSE self

\* impl AddAssign for Score: the value of self after self += rhs
add_assign(self, rhs) ==
    IF self.tag = "Absolute" /\ rhs.tag = "Absolute" THEN Absolute(self.b /\ rhs.b)
    ELSE IF self.tag = "Weighted" /\ rhs.tag = "Weighted"
        THEN Weighted(self.current + rhs.current, self.max + rhs.max)
    ELSE ModeMismatch

\* variant of mul: only the current score is scaled
mul_scaling_current_only(self, rhs) ==
    IF self.tag = "Weighted" THEN Weighted(self.current * rhs, self.max)
    ELSE Absolute(self.b)

\* impl Mul<u32> for Score
mul(self, rhs) ==
    IF self.tag = "Weighted" THEN Weighted(self.current * rhs, self.max * rhs)
    ELSE Absolute(self.b)

\* u32 multiplication: whether x * y exceeds u32::MAX = 2 * i32::MAX + 1, for
\* x and y below 2^30 (found by division, the product itself may not fit)
mul_overflows(x, y) ==
    /\ x >= 2
    /\ y >= 2
    /\ y > 2 * (2147483647 \div x) + (2 * (2147483647 % x) + 1) \div x

\* u32::wrapping_mul, what x * y is when overflow checks are off: the low 32
\* bits of the product, computed on 16-bit halves (the low halves' product
\* in two parts of 24 bits)
wrapping_mul(x, y) ==
    LET xh == x \div 65536
        xl == x % 65536
        yh == y \div 65536
        yl == y % 65536
        p1 == xl * (yl \div 256)
        p0 == xl * (yl % 256)
        lo == p0 + (p1 % 256) * 256
        hi == (p1 \div 256) + (lo \div 65536)
                + ((xh * yl) % 65536) + ((xl * yh) % 65536)
    IN  (hi % 65536) * 65536 + (lo % 65536)

(***************************************************************************)
(* Assertion and AssertionResult (unit_test/assertion.rs)                  *)
(***************************************************************************)
\* ExecutionStatus
Success == [kind |-> "Success"]
FailureWithStatus(code) == [kind |-> "FailureWithStatus", code |-> code]
FailureBeforeExecution == [kind |-> "FailureBeforeExecution"]
FailureBeforeWait == [kind |-> "FailureBeforeWait"]
FailureWithSignalTermination == [kind |-> "FailureWithSignalTermination"]
Undefined == [kind |-> "Undefined"]

ExpectedObtainedResult(expected, obtained) ==
    [expected |-> expected, obtained |-> obtained]

\* Assertion::new
Assertion(name, stdin, stdout, stderr, status, weight) ==
    [name |-> name, stdin |-> stdin, stdout |-> stdout, stderr |-> stderr,
     status |-> status, weight |-> weight]

\* Result<Assertion, &'static str>
Ok(v) == [ok |-> TRUE, val |-> v]
Err(e) == [ok |-> FALSE, err |-> e]

\* Assertion::build
build(name, stdin, stdout, stderr, status, weight) ==
    IF ~stdout.some /\ ~stderr.some /\ ~status.some
    THEN Err("at least one expect field must be non-null")
    ELSE Ok(Assertion(name, stdin, stdout, stderr, status, weight))

\* AssertionResult::new
AssertionResult_new(name, weight) ==
    [name |-> name, passed |-> FALSE, execution_status |-> Undefined,
     stdout_diagnostics |-> None, stderr_diagnostics |-> None,
     status_diagnostics |-> None, weight |-> weight]

\* variant of score: the weight is granted whether or not the assertion passed
score_ignoring_passed(r) == r.weight

\* AssertionResult::score
score(r) == IF r.passed THEN r.weight ELSE 0
\* AssertionResult::max_score
max_score(r) == r.weight

\* std::process::ExitStatus: an exit code, or none when a signal ended it
ExitStatuses == {[code |-> Some(c)] : c \in 0..MaxCode} \cup {[code |-> None]}
success(status) == status.code = Some(0)

\* Assertion::config_cmd: which of the child's streams are pipes
config_cmd(self) ==
    [stdin |-> self.stdin.some, stdout |-> self.stdout.some,
     stderr |-> self.stderr.some]

\* what wait_with_output may return for a child configured with stdio: a
\* stream that is not a pipe is captured empty
Outputs(stdio) ==
    [status : ExitStatuses,
     stdout : IF stdio.stdout THEN ByteStrings ELSE {<<>>},
     stderr : IF stdio.stderr THEN ByteStrings ELSE {<<>>}]

\* variant of assert_stdout_stderr_status_against_null: the stderr
\* expectation is forgotten
assert_against_null_without_stderr(self, assertion_result) ==
    [assertion_result EXCEPT
        !.stdout_diagnostics =
            IF self.stdout.some
            THEN Some(ExpectedObtainedResult(self.stdout.val, None)) ELSE @,
        !.status_diagnostics =
            IF self.status.some
            THEN Some(ExpectedObtainedResult(self.status.val, None)) ELSE @]

\* Assertion::assert_stdout_stderr_status_against_null
assert_stdout_stderr_status_against_null(self, assertion_result) ==
    [assertion_result EXCEPT
        !.stdout_diagnostics =
            IF self.stdout.some
            THEN Some(ExpectedObtainedResult(self.stdout.val, None)) ELSE @,
        !.stderr_diagnostics =
            IF self.stderr.some
            THEN Some(ExpectedObtainedResult(self.stderr.val, None)) ELSE @,
        !.status_diagnostics =
            IF self.status.some
            THEN Some(ExpectedObtainedResult(self.status.val, None)) ELSE @]

\* unsafe_assert_cmd when cmd.spawn() fails
spawn_failed(self) ==
    assert_stdout_stderr_status_against_null(self,
        [AssertionResult_new(self.name, self.weight)
            EXCEPT !.execution_status = FailureBeforeExecution])

\* unsafe_assert_cmd when child.wait_with_output() fails
wait_failed(self) ==
    assert_stdout_stderr_status_against_null(self,
        [AssertionResult_new(self.name, self.weight)
            EXCEPT !.execution_status = FailureBeforeWait])

\* variant of assert_status: a target that a signal terminated fails the
\* assertion whether or not a status is expected
assert_status_failing_signal_termination(self, assertion_result, status) ==
    IF success(status) THEN
        IF self.status.some /\ self.status.val # 0
        THEN <<FALSE, [assertion_result EXCEPT
                 !.status_diagnostics =
                     Some(ExpectedObtainedResult(self.status.val, Some(0))),
                 !.execution_status = Success]>>
        ELSE <<TRUE, [assertion_result EXCEPT !.execution_status = Success]>>
    ELSE IF status.code.some THEN
        IF self.status.some /\ self.status.val # status.code.val
        THEN <<FALSE, [assertion_result EXCEPT
                 !.status_diagnostics =
                     Some(ExpectedObtainedResult(self.status.val,
                                                 Some(status.code.val))),
                 !.execution_status = FailureWithStatus(status.code.val)]>>
        ELSE <<TRUE, [assertion_result EXCEPT
                 !.execution_status = FailureWithStatus(status.code.val)]>>
    ELSE
        IF self.status.some
        THEN <<FALSE, [assertion_result EXCEPT
                 !.status_diagnostics =
                     Some(ExpectedObtainedResult(self.status.val, None)),
                 !.execution_status = FailureWithSignalTermination]>>
        ELSE <<FALSE, [assertion_result EXCEPT
                 !.execution_status = FailureWithSignalTermination]>>

\* variant of assert_status: a successful exit is classified only when the
\* status expectation holds
assert_status_classifying_matches_only(self, assertion_result, status) ==
    IF success(status) THEN
        IF self.status.some /\ self.status.val # 0
        THEN <<FALSE, [assertion_result EXCEPT
                 !.status_diagnostics =
                     Some(ExpectedObtainedResult(self.status.val, Some(0)))]>>
        ELSE <<TRUE, [assertion_result EXCEPT !.execution_status = Success]>>
    ELSE IF status.code.some THEN
        IF self.status.some /\ self.status.val # status.code.val
        THEN <<FALSE, [assertion_result EXCEPT
                 !.status_diagnostics =
                     Some(ExpectedObtainedResult(self.status.val,
                                                 Some(status.code.val))),
                 !.execution_status = FailureWithStatus(status.code.val)]>>
        ELSE <<TRUE, [assertion_result EXCEPT
                 !.execution_status = FailureWithStatus(status.code.val)]>>
    ELSE
        IF self.status.some
        THEN <<FALSE, [assertion_result EXCEPT
                 !.status_diagnostics =
                     Some(ExpectedObtainedResult(self.status.val, None)),
                 !.execution_status = FailureWithSignalTermination]>>
        ELSE <<TRUE, [assertion_result EXCEPT
                 !.execution_status = FailureWithSignalTermination]>>

\* unsafe_assert_cmd, classification of the exit status: the pair
\* <<passed, assertion_result>> after it
assert_status(self, assertion_result, status) ==
    IF success(status) THEN
        IF self.status.some /\ self.status.val # 0
        THEN <<FALSE, [assertion_result EXCEPT
                 !.status_diagnostics =
                     Some(ExpectedObtainedResult(self.status.val, Some(0))),
                 !.execution_status = Success]>>
        ELSE <<TRUE, [assertion_result EXCEPT !.execution_status = Success]>>
    ELSE IF status.code.some THEN
        IF self.status.some /\ self.status.val # status.code.val
        THEN <<FALSE, [assertion_result EXCEPT
                 !.status_diagnostics =
                     Some(ExpectedObtainedResult(self.status.val,
                                                 Some(status.code.val))),
                 !.execution_status = FailureWithStatus(status.code.val)]>>
        ELSE <<TRUE, [assertion_result EXCEPT
                 !.execution_status = FailureWithStatus(status.code.val)]>>
    ELSE
        IF self.status.some
        THEN <<FALSE, [assertion_result EXCEPT
                 !.status_diagnostics =
                     Some(ExpectedObtainedResult(self.status.val, None)),
                 !.execution_status = FailureWithSignalTermination]>>
        ELSE <<TRUE, [assertion_result EXCEPT
                 !.execution_status = FailureWithSignalTermination]>>

\* variant of assert_stdout: the comparison is made on the lossily decoded
\* output instead of on the bytes
assert_stdout_comparing_decoded(self, pr, stdout) ==
    IF self.stdout.some /\ from_utf8_lossy(stdout) # self.stdout.val
    THEN <<FALSE, [pr[2] EXCEPT !.stdout_diagnostics =
             Some(ExpectedObtainedResult(self.stdout.val,
                                         Some(from_utf8_lossy(stdout))))]>>
    ELSE pr

\* unsafe_assert_cmd, comparison of the captured stdout
assert_stdout(self, pr, stdout) ==
    IF self.stdout.some /\ stdout # as_bytes(self.stdout.val)
    THEN <<FALSE, [pr[2] EXCEPT !.stdout_diagnostics =
             Some(ExpectedObtainedResult(self.stdout.val,
                                         Some(from_utf8_lossy(stdout))))]>>
    ELSE pr

\* variant of assert_stderr: the diagnostic is recorded for every asserted
\* stderr, matched or not
assert_stderr_always_reporting(self, pr, stderr) ==
    IF self.stderr.some
    THEN <<pr[1] /\ stderr = as_bytes(self.stderr.val),
           [pr[2] EXCEPT !.stderr_diagnostics =
             Some(ExpectedObtainedResult(self.stderr.val,
                                         Some(from_utf8_lossy(stderr))))]>>
    ELSE pr

\* unsafe_assert_cmd, comparison of the captured stderr
assert_stderr(self, pr, stderr) ==
    IF self.stderr.some /\ stderr # as_bytes(self.stderr.val)
    THEN <<FALSE, [pr[2] EXCEPT !.stderr_diagnostics =
             Some(ExpectedObtainedResult(self.stderr.val,
                                         Some(from_utf8_lossy(stderr))))]>>
    ELSE pr

\* unsafe_assert_cmd after the child was waited on with the given output
completed(self, output) ==
    LET pr == assert_stderr(self,
                  assert_stdout(self,
                      assert_status(self,
                          AssertionResult_new(self.name, self.weight),
                          output.status),
                      output.stdout),
                  output.stderr)
    IN  [pr[2] EXCEPT !.passed = pr[1]]

(***************************************************************************)
(* Result objects (unit_test.rs, grader.rs)                                *)
(***************************************************************************)
\* UnitTestResult::new
UnitTestResult_new(name, grading_mode) ==
    [name |-> name, score |-> default(grading_mode), assertion_results |-> <<>>]

\* variant of add_assertion_result: the maximum grows by the points the
\* assertion scored
add_assertion_result_counting_scored_points(self, assertion_result) ==
    [self EXCEPT
        !.score =
            IF self.score.tag = "Absolute"
            THEN Absolute(self.score.b
                          /\ score(assertion_result) = max_score(assertion_result))
            ELSE Weighted(self.score.current + score(assertion_result),
                          self.score.max + score(assertion_result)),
        !.assertion_results = Append(@, assertion_result)]

\* UnitTestResult::add_assertion_result
add_assertion_result(self, assertion_result) ==
    [self EXCEPT
        !.score =
            IF self.score.tag = "Absolute"
            THEN Absolute(self.score.b
                          /\ score(assertion_result) = max_score(assertion_result))
            ELSE Weighted(self.score.current + score(assertion_result),
                          self.score.max + max_score(assertion_result)),
        !.assertion_results = Append(@, assertion_result)]

\* UnitTestsResult::new
UnitTestsResult_new(grading_mode) ==
    [score |-> default(grading_mode), assertions_per_executable_results |-> <<>>]

\* variant of add_result: the result is put in front of the list
add_result_prepending(self, unit_test_result) ==
    [self EXCEPT
        !.score = add_assign(@, unit_test_result.score),
        !.assertions_per_executable_results = <<unit_test_result>> \o @]

\* UnitTestsResult::add_result
add_result(self, unit_test_result) ==
    [self EXCEPT
        !.score = add_assign(@, unit_test_result.score),
        !.assertions_per_executable_results = Append(@, unit_test_result)]

\* GradingSectionResult::new
GradingSectionResult_new(name, grading_mode) ==
    [name |-> name, score |-> default(grading_mode), test_results |-> None]

\* variant of set_test_results: the tests' score is combined into the
\* section's score instead of being scaled by the weight
set_test_results_combining(self, test_results, weight) ==
    [self EXCEPT !.score = add_assign(@, test_results.score),
                 !.test_results = Some(test_results)]

\* GradingSectionResult::set_test_results
set_test_results(self, test_results, weight) ==
    [self EXCEPT !.score = mul(test_results.score, weight),
                 !.test_results = Some(test_results)]

\* GradingResult::new
GradingResult_new(grading_mode) ==
    [score |-> default(grading_mode), grading_section_results |-> <<>>]

\* variant of add_section_result: the section's score replaces the total
add_section_result_overwriting(self, grading_section_result) ==
    [self EXCEPT
        !.score = grading_section_result.score,
        !.grading_section_results = Append(@, grading_section_result)]

\* GradingResult::add_section_result
add_section_result(self, grading_section_result) ==
    [self EXCEPT
        !.score = add_assign(@, grading_section_result.score),
        !.grading_section_results = Append(@, grading_section_result)]

(***************************************************************************)
(* Configurations                                                          *)
(***************************************************************************)
\* status codes an assertion may expect
ExpectedStatuses == {0, 1}
\* the stdin content an assertion may declare
StdinContents == {<<97>>}

\* every assertion Assertion::new accepts over the small domains (the name is
\* set when the assertion is placed in a configuration)
Assertions ==
    {Assertion(<<>>, i, o, e, st, w) :
        i \in {None} \cup {Some(c) : c \in StdinContents},
        o \in {None} \cup {Some(x) : x \in Strings},
        e \in {None} \cup {Some(x) : x \in Strings},
        st \in {None} \cup {Some(c) : c \in ExpectedStatuses},
        w \in SingleAssertionWeights}

\* the assertions of the configurations of a whole run: a status expectation
\* and a weight
StatusAssertions ==
    {Assertion(<<>>, None, None, None, Some(0), w) : w \in AssertionWeights}

\* lists of exactly n unit tests (each a non-empty list of assertions drawn
\* from A) that hold at most budget assertions together
RECURSIVE UnitTestLists(_, _, _)
UnitTestLists(A, n, budget) ==
    IF n = 0 THEN {<<>>}
    ELSE UNION {
           {<<as>> \o rest : rest \in UnitTestLists(A, n - 1, budget - Len(as))} :
           as \in SeqsUpTo(A, IF budget < MaxAssertions THEN budget
                              ELSE MaxAssertions) \ {<<>>}}

NumAssertions(unit_tests) == Len(Flatten(unit_tests))

\* lists of exactly n sections <<weight, non-empty list of unit tests>> that
\* hold at most budget assertions together
RECURSIVE SectionLists(_, _, _)
SectionLists(A, n, budget) ==
    IF n = 0 THEN {<<>>}
    ELSE UNION {
           {<<sec>> \o rest :
               rest \in SectionLists(A, n - 1, budget - NumAssertions(sec[2]))} :
           sec \in SectionWeights
                     \X UNION {UnitTestLists(A, m, budget) : m \in 1..MaxUnitTests}}

\* the fixture every section of a configuration declares
FileNames == <<"file1", "file2", "file3">>
Files == SubSeq(FileNames, 1, NumFiles)
Setup == [i \in 1..NumSetup |-> <<"setup", i>>]
Teardown == [i \in 1..NumTeardown |-> <<"teardown", i>>]

\* the executable of a unit test that leaves every file alone, the command
\* of a target that never ran, and an executable that never terminates
Executable == <<"target", 0>>
NoCommand == <<"none", 0>>
HangingExecutable == <<"hang", 0>>
never_terminates(cmd) == cmd[1] = "hang"

\* GradingConfig::new followed by add_grading_section for each section,
\* whose tests run setup and teardown around executable with no explicit
\* environment variable and the parent's environment inherited: names are
\* the positions in the declaration
GradingConfig_with(grading_mode, sections, files, setup, teardown, executable) ==
    [grading_mode |-> grading_mode,
     grading_sections |->
        [s \in 1..Len(sections) |->
            [name |-> <<s>>,
             weight |-> sections[s][1],
             tests |->
                [envs |-> <<>>, inherited_parent_envs |-> TRUE,
                 files |-> files, setup |-> setup, teardown |-> teardown,
                 unit_tests |->
                    [u \in 1..Len(sections[s][2]) |->
                        [name |-> <<s, u>>,
                         executable |-> executable,
                         assertions |->
                            [a \in 1..Len(sections[s][2][u]) |->
                                [sections[s][2][u][a]
                                    EXCEPT !.name = <<s, u, a>>]]]]]]]]

\* a configuration of the smallest fixture (one file, one setup command,
\* one teardown command), whose commands leave the files of their directory
\* alone
GradingConfig_new(grading_mode, sections) ==
    GradingConfig_with(grading_mode, sections, <<Files[1]>>, <<Setup[1]>>,
                       <<Teardown[1]>>, Executable)

\* configurations of a whole run
GradingConfigs ==
    {GradingConfig_new(m, secs) :
        m \in GradingMode,
        secs \in UNION {SectionLists(StatusAssertions, n, MaxTotalAssertions) :
                           n \in 0..MaxSections}}

\* commands that act on files: one creates a file in its current directory,
\* one deletes a fixture file of its current directory, one creates a file
\* at an absolute path
FileCommands == {<<"touch", "stray">>, <<"rm", "file1">>, <<"touch", "/shared">>}

\* the fixture names of a section: relative names, or an absolute name first
FixtureLists == {Files, [Files EXCEPT ![1] = "/shared"]}

\* configurations of one section whose setup commands, targets and teardown
\* commands act on files
IsolationConfigs ==
    {GradingConfig_with("Weighted", <<<<2, unit_tests>>>>, files,
                        [i \in 1..NumSetup |-> s],
                        [i \in 1..NumTeardown |-> t], e) :
        unit_tests \in UNION {UnitTestLists(
                                 {Assertion(<<>>, None, None, None, Some(0), 2)},
                                 m, MaxTotalAssertions) : m \in 1..MaxUnitTests},
        files \in FixtureLists,
        s \in FileCommands, t \in FileCommands, e \in FileCommands}

\* setup and teardown commands that end in each way
ExitCommands == {<<"true", 0>>, <<"false", 0>>, <<"kill", 0>>}

\* configurations of one section whose setup commands and teardown commands
\* end in each way
ExitConfigs ==
    {GradingConfig_with("Weighted", <<<<2, unit_tests>>>>, Files,
                        [i \in 1..NumSetup |-> s],
                        [i \in 1..NumTeardown |-> t], Executable) :
        unit_tests \in UNION {UnitTestLists(
                                 {Assertion(<<>>, None, None, None, Some(0), 2)},
                                 m, MaxTotalAssertions) : m \in 1..MaxUnitTests},
        s \in ExitCommands, t \in ExitCommands}

\* configurations of one section whose target terminates or never does
HangConfigs ==
    {GradingConfig_with(m, <<<<2, unit_tests>>>>, Files, Setup, Teardown, e) :
        m \in GradingMode,
        unit_tests \in UNION {UnitTestLists(StatusAssertions, n,
                                            MaxTotalAssertions) :
                                 n \in 1..MaxUnitTests},
        e \in {Executable, HangingExecutable}}

\* the environment variables a command can see, the values an explicit
\* variable can take, and the environment of the grader's own process
EnvKeys == {"PATH", "K1"}
EnvValues == {"v1", "v2"}
ParentEnv == [key \in EnvKeys |-> IF key = "PATH" THEN Some("/bin") ELSE None]

\* lists of at most n explicit (key, value) pairs
RECURSIVE EnvLists(_)
EnvLists(n) ==
    IF n = 0 THEN {<<>>}
    ELSE EnvLists(n - 1)
           \cup {Append(l, kv) : l \in {e \in EnvLists(n - 1) : Len(e) = n - 1},
                                 kv \in EnvKeys \X EnvValues}

\* the tests of every section of a configuration given explicit environment
\* variables (UnitTests::new's envs and inherited_parent_envs)
with_envs(c, envs, inherited_parent_envs) ==
    [c EXCEPT !.grading_sections =
        [s \in 1..Len(@) |->
            [@[s] EXCEPT !.tests.envs = envs,
                         !.tests.inherited_parent_envs = inherited_parent_envs]]]

\* configurations of one section of one or two assertions whose tests
\* declare an environment
EnvConfigs ==
    {with_envs(GradingConfig_with("Weighted", <<<<2, unit_tests>>>>, Files,
                                  Setup, Teardown, Executable),
               envs, inherit) :
        unit_tests \in UNION {{<<<<a>>>>, <<<<a, a>>>>, <<<<a>>, <<a>>>>} :
                                 a \in {Assertion(<<>>, None, None, None,
                                                  Some(0), 2)}},
        envs \in EnvLists(MaxEnvs),
        inherit \in BOOLEAN}

\* configurations of one assertion of any kind in one unit test of one section
SingleAssertionConfigs ==
    {GradingConfig_new("Weighted", <<<<1, <<<<a>>>>>>>>) : a \in Assertions}

(***************************************************************************)
(* State of a run                                                          *)
(***************************************************************************)
VARIABLES
    config,         \* the GradingConfig, read-only during the run
    pc,             \* position of the controlling thread
    si, ui, ai,     \* section, unit test and assertion being iterated
    k,              \* file, setup or teardown command being iterated
    result,         \* GradingResult being built by run_assessment
    tests_result,   \* UnitTestsResult being built by UnitTests::run
    unit_result,    \* UnitTestResult being built by UnitTest::run
    tmp_dir,        \* the TempDir of the current iteration of UnitTest::run
    child,          \* the spawned target between spawn and wait_with_output
    returned,       \* the GradingResult run_assessment returned
    history,        \* every target execution so far: assertion and outcome
    last_io,        \* outcome of the latest fixture operation
    dirs,           \* the temporary directories that exist on the disk
    outside,        \* the files written outside the temporary directories
    events,         \* the steps of the latest iteration of UnitTest::run
    total,          \* a Score of its own, outside a run, that += and * act on
    operations,     \* the operations applied to total: operator and operands
    exec            \* a spawned target of its own with its pipes, its stdin
                    \* writer and the caller that waits for its output

\* the state of a run
run_vars == <<config, pc, si, ui, ai, k, result, tests_result, unit_result,
              tmp_dir, child, returned, history, last_io, dirs, outside,
              events>>
\* the state of a Score that is operated on outside a run
score_vars == <<total, operations>>

\* the state of a target that is followed from spawn to wait_with_output
pipe_vars == <<exec>>

vars == <<run_vars, score_vars, pipe_vars>>

grading_mode == config.grading_mode
section == config.grading_sections[si]
tests == section.tests
unit_test == tests.unit_tests[ui]
assertion == unit_test.assertions[ai]

\* outcomes of a fixture filesystem operation
IoOutcomes == {"ok", "err"}
\* outcomes of Command::output of a setup or teardown command: it cannot be
\* launched, or it ran and ended in some way
CommandOutcomes == {"err", "exit_success", "exit_failure", "signal"}

\* how a command that was launched ends: false exits with a failure, kill
\* is terminated by a signal, every other program exits successfully
exit_of(cmd) ==
    IF cmd[1] = "false" THEN "exit_failure"
    ELSE IF cmd[1] = "kill" THEN "signal"
    ELSE "exit_success"

\* what Command::output of cmd may return: an error when the command
\* cannot be launched, otherwise the way it ended
output_of(cmd) == {"err", exit_of(cmd)}

InitRun ==
    /\ pc = "section"
    /\ si = 1 /\ ui = 1 /\ ai = 1 /\ k = 1
    /\ result = GradingResult_new(config.grading_mode)
    /\ tests_result = None
    /\ unit_result = None
    /\ tmp_dir = None
    /\ child = None
    /\ returned = None
    /\ history = <<>>
    /\ last_io = "none"
    /\ dirs = {}
    /\ outside = {}
    /\ events = <<>>
    /\ total = None
    /\ operations = <<>>
    /\ exec = None

\* a run of any configuration of status assertions
Init == config \in GradingConfigs /\ InitRun

\* a run of one assertion of any kind
AssertInit == config \in SingleAssertionConfigs /\ InitRun

\* a run of a configuration whose target may never terminate
HangInit == config \in HangConfigs /\ InitRun

\* a run of a configuration whose commands act on files
IsolationInit == config \in IsolationConfigs /\ InitRun

\* a run of a configuration whose setup and teardown commands end in each way
ExitInit == config \in ExitConfigs /\ InitRun

\* a run of a configuration whose tests declare an environment
EnvInit == config \in EnvConfigs /\ InitRun

\* a run of any configuration of status assertions in Weighted mode
WeightedInit ==
    /\ config \in {c \in GradingConfigs : c.grading_mode = "Weighted"}
    /\ InitRun

\* where the iteration of UnitTest::run goes once the files are written, the
\* setup has run, and the target's result is recorded
EnterSetup == IF Len(tests.setup) > 0 THEN <<"setup", 1>> ELSE <<"spawn", 1>>
EnterFiles == IF Len(tests.files) > 0 THEN <<"files", 1>> ELSE EnterSetup
EnterTeardown == IF Len(tests.teardown) > 0 THEN <<"teardown", 1>> ELSE <<"drop", 1>>

\* a step of the iteration of UnitTest::run for the current assertion: the
\* operation, the file or command it is about, and the directory it acts in
Event(op, n, dir) == [op |-> op, assertion |-> assertion.name, k |-> n, dir |-> dir]

\* Command::env_clear: the command inherits no variable
env_clear == [key \in EnvKeys |-> None]

\* a variant of Command::envs that leaves alone a key the command's
\* environment already holds
RECURSIVE Command_envs_keeping_inherited(_, _)
Command_envs_keeping_inherited(env, pairs) ==
    IF pairs = <<>> THEN env
    ELSE Command_envs_keeping_inherited(
             IF env[Head(pairs)[1]].some THEN env
             ELSE [env EXCEPT ![Head(pairs)[1]] = Some(Head(pairs)[2])],
             Tail(pairs))

\* Command::envs, whose every pair is inserted in order whatever the
\* command's environment held for the key
RECURSIVE Command_envs(_, _)
Command_envs(env, pairs) ==
    IF pairs = <<>> THEN env
    ELSE Command_envs([env EXCEPT ![Head(pairs)[1]] = Some(Head(pairs)[2])],
                      Tail(pairs))

\* the environment UnitTest::run gives a command it builds: the parent's
\* unless inherited_parent_envs is false, then every pair of envs
command_env ==
    Command_envs(IF tests.inherited_parent_envs THEN ParentEnv ELSE env_clear,
                 tests.envs)

\* the launch of a setup command, a target or a teardown command, built
\* with current_dir(&tmp_dir) and the environment above
Launch(op, n) ==
    [op |-> op, assertion |-> assertion.name, k |-> n,
     dir |-> tmp_dir.val.id, env |-> command_env]

\* the directory tempfile::tempdir() creates: one that never existed before
\* (directories are numbered as they are created, one for each iteration,
\* and every earlier iteration is in history)
NextDir == Len(history) + 1

\* a panic (expect on an Err of UnitTest::run, or a score mode mismatch)
\* unwinds run_assessment: every local is dropped, the TempDir of an
\* iteration that returned early with it, and nothing is returned
Panic ==
    /\ pc' = "panicked"
    /\ result' = None
    /\ tests_result' = None
    /\ unit_result' = None
    /\ tmp_dir' = None
    /\ dirs' = IF tmp_dir.some THEN dirs \ {tmp_dir.val.id} ELSE dirs
    /\ events' = IF tmp_dir.some
                 THEN Append(events, Event("drop", 0, tmp_dir.val.id))
                 ELSE events
    /\ child' = None
    /\ returned' = None
    /\ UNCHANGED <<config, si, ui, ai, k, history, outside>>

\* UnitTest::run returns Err(err); UnitTests::run panics on it
FixtureError(io) == last_io' = io /\ Panic

(***************************************************************************)
(* GradingConfig::run_assessment (grader.rs)                               *)
(***************************************************************************)
\* variant of StartSection: the tests of a section go on with the result
\* that the previous run of the configuration returned for them
StartSection_continuing_result ==
    /\ pc = "section"
    /\ UNCHANGED <<score_vars, pipe_vars>>
    /\ si <= Len(config.grading_sections)
    /\ tests_result' =
           IF returned.some
           THEN returned.val.grading_section_results[si].test_results.val
           ELSE UnitTestsResult_new(grading_mode)
    /\ ui' = 1
    /\ pc' = "unit_test"
    /\ UNCHANGED <<config, si, ai, k, result, unit_result, tmp_dir, child,
                   returned, history, last_io, dirs, outside, events>>

\* next section of the loop: run_section_assessment starts the section's tests
StartSection ==
    /\ pc = "section"
    /\ UNCHANGED <<score_vars, pipe_vars>>
    /\ si <= Len(config.grading_sections)
    /\ tests_result' = UnitTestsResult_new(grading_mode)
    /\ ui' = 1
    /\ pc' = "unit_test"
    /\ UNCHANGED <<config, si, ai, k, result, unit_result, tmp_dir, child,
                   returned, history, last_io, dirs, outside, events>>

\* UnitTests::run returns; run_section_assessment sets the section's result,
\* run_assessment adds it to the GradingResult
EndSection ==
    /\ pc = "unit_test"
    /\ UNCHANGED <<score_vars, pipe_vars>>
    /\ ui > Len(tests.unit_tests)
    /\ LET sr == set_test_results(
                     GradingSectionResult_new(section.name, grading_mode),
                     tests_result, section.weight)
           gr == add_section_result(result, sr)
       IN  IF gr.score = ModeMismatch
           THEN Panic /\ UNCHANGED last_io
           ELSE /\ result' = gr
                /\ tests_result' = None
                /\ si' = si + 1
                /\ pc' = "section"
                /\ UNCHANGED <<config, ui, ai, k, unit_result, tmp_dir, child,
                               returned, history, last_io, dirs, outside, events>>

\* the loop over the sections ends: run_assessment returns the result
Finish ==
    /\ pc = "section"
    /\ UNCHANGED <<score_vars, pipe_vars>>
    /\ si > Len(config.grading_sections)
    /\ returned' = Some(result)
    /\ pc' = "done"
    /\ UNCHANGED <<config, si, ui, ai, k, result, tests_result, unit_result,
                   tmp_dir, child, history, last_io, dirs, outside, events>>

(***************************************************************************)
(* UnitTests::run (unit_test.rs)                                           *)
(***************************************************************************)
\* next unit test of the loop: UnitTest::run creates its result
StartUnitTest ==
    /\ pc = "unit_test"
    /\ UNCHANGED <<score_vars, pipe_vars>>
    /\ ui <= Len(tests.unit_tests)
    /\ unit_result' = UnitTestResult_new(unit_test.name, grading_mode)
    /\ ai' = 1
    /\ pc' = "assertion"
    /\ UNCHANGED <<config, si, ui, k, result, tests_result, tmp_dir, child,
                   returned, history, last_io, dirs, outside, events>>

\* UnitTest::run returns Ok(result); UnitTests::run adds it
EndUnitTest ==
    /\ pc = "assertion"
    /\ UNCHANGED <<score_vars, pipe_vars>>
    /\ ai > Len(unit_test.assertions)
    /\ LET tr == add_result(tests_result, unit_result)
       IN  IF tr.score = ModeMismatch
           THEN Panic /\ UNCHANGED last_io
           ELSE /\ tests_result' = tr
                /\ unit_result' = None
                /\ ui' = ui + 1
                /\ pc' = "unit_test"
                /\ UNCHANGED <<config, si, ai, k, result, tmp_dir, child,
                               returned, history, last_io, dirs, outside, events>>

(***************************************************************************)
(* UnitTest::run, one iteration per assertion (unit_test.rs)               *)
(***************************************************************************)
\* Path::is_absolute: a path that names the same file whatever the current
\* directory is
AbsolutePaths == {"/shared"}
is_absolute(path) == path \in AbsolutePaths

\* the files once the command cmd = <<program, path>> ran: touch creates
\* the path, rm deletes it, any other program leaves the files alone
run(cmd, files) ==
    IF cmd[1] = "touch" THEN files \cup {cmd[2]}
    ELSE IF cmd[1] = "rm" THEN files \ {cmd[2]}
    ELSE files

\* the files of a directory once cmd ran with current_dir(&tmp_dir): a
\* relative path is resolved in the directory
run_in(cmd, files) ==
    IF cmd[1] \in {"touch", "rm"} /\ ~is_absolute(cmd[2])
    THEN run(cmd, files) ELSE files

\* the files outside the directories once cmd ran: an absolute path is
\* resolved whatever the current directory is
run_outside(cmd, files) ==
    IF cmd[1] \in {"touch", "rm"} /\ is_absolute(cmd[2])
    THEN run(cmd, files) ELSE files

\* tempfile::tempdir()
CreateTempDir ==
    /\ pc = "assertion"
    /\ UNCHANGED <<score_vars, pipe_vars>>
    /\ ai <= Len(unit_test.assertions)
    /\ \E io \in IoOutcomes :
        IF io = "err" THEN FixtureError(io)
        ELSE /\ tmp_dir' = Some([id |-> NextDir, files |-> {}])
             /\ dirs' = dirs \cup {NextDir}
             /\ events' = <<Event("tempdir", 0, NextDir)>>
             /\ pc' = EnterFiles[1]
             /\ k' = EnterFiles[2]
             /\ last_io' = io
             /\ UNCHANGED <<config, si, ui, ai, result, tests_result,
                            unit_result, child, returned, history, outside>>

\* variant of WriteFile: the fixture files are written for the first
\* assertion of a unit test only
WriteFile_for_first_assertion_only ==
    /\ pc = "files"
    /\ UNCHANGED <<score_vars, pipe_vars>>
    /\ \E io \in IoOutcomes :
        IF io = "err" THEN FixtureError(io)
        ELSE /\ tmp_dir' = Some([tmp_dir.val EXCEPT !.files =
                                IF ai = 1 /\ ~is_absolute(tests.files[k])
                                THEN @ \cup {tests.files[k]} ELSE @])
             /\ outside' = IF ai = 1 /\ is_absolute(tests.files[k])
                           THEN outside \cup {tests.files[k]} ELSE outside
             /\ events' = Append(events, Event("write", k, tmp_dir.val.id))
             /\ IF k < Len(tests.files)
                THEN pc' = pc /\ k' = k + 1
                ELSE pc' = EnterSetup[1] /\ k' = EnterSetup[2]
             /\ last_io' = io
             /\ UNCHANGED <<config, si, ui, ai, result, tests_result,
                            unit_result, child, returned, history, dirs>>

\* fs::write(tmp_dir.path().join(name), content) of the k-th fixture file:
\* Path::join resolves a relative name in the directory and leaves an
\* absolute name as it is
WriteFile ==
    /\ pc = "files"
    /\ UNCHANGED <<score_vars, pipe_vars>>
    /\ \E io \in IoOutcomes :
        IF io = "err" THEN FixtureError(io)
        ELSE /\ tmp_dir' = Some([tmp_dir.val EXCEPT !.files =
                                IF is_absolute(tests.files[k])
                                THEN @ ELSE @ \cup {tests.files[k]}])
             /\ outside' = IF is_absolute(tests.files[k])
                           THEN outside \cup {tests.files[k]} ELSE outside
             /\ events' = Append(events, Event("write", k, tmp_dir.val.id))
             /\ IF k < Len(tests.files)
                THEN pc' = pc /\ k' = k + 1
                ELSE pc' = EnterSetup[1] /\ k' = EnterSetup[2]
             /\ last_io' = io
             /\ UNCHANGED <<config, si, ui, ai, result, tests_result,
                            unit_result, child, returned, history, dirs>>

\* variant of RunSetup: a setup command that exits with a failure or is
\* killed by a signal ends the run like one that cannot be launched
RunSetup_failing_on_exit_status ==
    /\ pc = "setup"
    /\ UNCHANGED <<score_vars, pipe_vars>>
    /\ \E io \in output_of(tests.setup[k]) :
        IF io # "exit_success" THEN FixtureError(io)
        ELSE /\ tmp_dir' = Some([tmp_dir.val EXCEPT !.files =
                                                run_in(tests.setup[k], @)])
             /\ outside' = run_outside(tests.setup[k], outside)
             /\ events' = Append(events, Launch("setup", k))
             /\ IF k < Len(tests.setup)
                THEN pc' = pc /\ k' = k + 1
                ELSE pc' = "spawn" /\ k' = 1
             /\ last_io' = io
             /\ UNCHANGED <<config, si, ui, ai, result, tests_result,
                            unit_result, child, returned, history, dirs>>

\* variant of RunSetup: the target is started once the first setup command
\* has run
RunSetup_first_command_only ==
    /\ pc = "setup"
    /\ UNCHANGED <<score_vars, pipe_vars>>
    /\ \E io \in output_of(tests.setup[k]) :
        IF io = "err" THEN FixtureError(io)
        ELSE /\ tmp_dir' = Some([tmp_dir.val EXCEPT !.files =
                                                run_in(tests.setup[k], @)])
             /\ outside' = run_outside(tests.setup[k], outside)
             /\ events' = Append(events, Launch("setup", k))
             /\ pc' = "spawn" /\ k' = 1
             /\ last_io' = io
             /\ UNCHANGED <<config, si, ui, ai, result, tests_result,
                            unit_result, child, returned, history, dirs>>

\* setup_cmd.output() of the k-th setup command, in the directory
RunSetup ==
    /\ pc = "setup"
    /\ UNCHANGED <<score_vars, pipe_vars>>
    /\ \E io \in output_of(tests.setup[k]) :
        IF io = "err" THEN FixtureError(io)
        ELSE /\ tmp_dir' = Some([tmp_dir.val EXCEPT !.files =
                                                run_in(tests.setup[k], @)])
             /\ outside' = run_outside(tests.setup[k], outside)
             /\ events' = Append(events, Launch("setup", k))
             /\ IF k < Len(tests.setup)
                THEN pc' = pc /\ k' = k + 1
                ELSE pc' = "spawn" /\ k' = 1
             /\ last_io' = io
             /\ UNCHANGED <<config, si, ui, ai, result, tests_result,
                            unit_result, child, returned, history, dirs>>

\* result.add_assertion_result(assertion.unsafe_assert_cmd(cmd)) once
\* unsafe_assert_cmd returns assertion_result after the target ended as
\* outcome: launched is the log once the target was launched, cmd what the
\* target did to the files (nothing when it never ran)
RecordAssertion(assertion_result, outcome, launched, cmd) ==
    /\ unit_result' = add_assertion_result(unit_result, assertion_result)
    /\ history' = Append(history, [assertion |-> assertion, outcome |-> outcome,
                                   result |-> assertion_result,
                                   dir |-> tmp_dir.val.id])
    /\ events' = Append(launched, Event("record", 0, tmp_dir.val.id))
    /\ tmp_dir' = Some([tmp_dir.val EXCEPT !.files = run_in(cmd, @)])
    /\ outside' = run_outside(cmd, outside)
    /\ child' = None
    /\ pc' = EnterTeardown[1]
    /\ k' = EnterTeardown[2]
    /\ last_io' = "none"
    /\ UNCHANGED <<config, si, ui, ai, result, tests_result, returned, dirs>>

\* variant of Spawn: a target that cannot be spawned ends the run like a
\* fixture failure
Spawn_failing_the_run ==
    /\ pc = "spawn"
    /\ UNCHANGED <<score_vars, pipe_vars>>
    /\ \E io \in IoOutcomes :
        IF io = "err"
        THEN Panic /\ UNCHANGED last_io
        ELSE /\ child' = Some(config_cmd(assertion))
             /\ events' = Append(events, Launch("target", 0))
             /\ pc' = "wait"
             /\ last_io' = "none"
             /\ UNCHANGED <<config, si, ui, ai, k, result, tests_result,
                            unit_result, tmp_dir, returned, history, dirs,
                            outside>>

\* unsafe_assert_cmd: config_cmd and cmd.spawn(), in the directory
Spawn ==
    /\ pc = "spawn"
    /\ UNCHANGED <<score_vars, pipe_vars>>
    /\ \E io \in IoOutcomes :
        IF io = "err"
        THEN RecordAssertion(spawn_failed(assertion), [kind |-> "spawn_err"],
                             Append(events, Launch("target", 0)),
                             NoCommand)
        ELSE /\ child' = Some(config_cmd(assertion))
             /\ events' = Append(events, Launch("target", 0))
             /\ pc' = "wait"
             /\ last_io' = "none"
             /\ UNCHANGED <<config, si, ui, ai, k, result, tests_result,
                            unit_result, tmp_dir, returned, history, dirs,
                            outside>>

\* variant of Wait: the wait for a target that never terminates is given
\* up and reported as a failed wait
Wait_giving_up ==
    /\ pc = "wait"
    /\ UNCHANGED <<score_vars, pipe_vars>>
    /\ \/ \E cmd \in {NoCommand, unit_test.executable} :
            RecordAssertion(wait_failed(assertion), [kind |-> "wait_err"],
                            events, cmd)
       \/ /\ ~never_terminates(unit_test.executable)
          /\ \E output \in Outputs(child.val) :
                RecordAssertion(completed(assertion, output),
                                [kind |-> "exited", output |-> output],
                                events, unit_test.executable)

\* unsafe_assert_cmd: child.wait_with_output() and the assertions on its
\* output; the call returns, with the output or with an error, once the
\* target has terminated
Wait ==
    /\ pc = "wait"
    /\ ~never_terminates(unit_test.executable)
    /\ UNCHANGED <<score_vars, pipe_vars>>
    /\ \/ \E cmd \in {NoCommand, unit_test.executable} :
            RecordAssertion(wait_failed(assertion), [kind |-> "wait_err"],
                            events, cmd)
       \/ \E output \in Outputs(child.val) :
            RecordAssertion(completed(assertion, output),
                            [kind |-> "exited", output |-> output],
                            events, unit_test.executable)

\* variant of RunTeardown: a teardown command that cannot be launched is
\* skipped
RunTeardown_skipping_launch_error ==
    /\ pc = "teardown"
    /\ UNCHANGED <<score_vars, pipe_vars>>
    /\ \E io \in output_of(tests.teardown[k]) :
        /\ tmp_dir' = Some([tmp_dir.val EXCEPT !.files =
                               IF io = "err" THEN @
                               ELSE run_in(tests.teardown[k], @)])
        /\ outside' = IF io = "err" THEN outside
                      ELSE run_outside(tests.teardown[k], outside)
        /\ events' = Append(events, Launch("teardown", k))
        /\ IF k < Len(tests.teardown)
           THEN pc' = pc /\ k' = k + 1
           ELSE pc' = "drop" /\ k' = 1
        /\ last_io' = io
        /\ UNCHANGED <<config, si, ui, ai, result, tests_result,
                       unit_result, child, returned, history, dirs>>

\* teardown_cmd.output() of the k-th teardown command, in the directory
RunTeardown ==
    /\ pc = "teardown"
    /\ UNCHANGED <<score_vars, pipe_vars>>
    /\ \E io \in output_of(tests.teardown[k]) :
        IF io = "err" THEN FixtureError(io)
        ELSE /\ tmp_dir' = Some([tmp_dir.val EXCEPT !.files =
                                                run_in(tests.teardown[k], @)])
             /\ outside' = run_outside(tests.teardown[k], outside)
             /\ events' = Append(events, Launch("teardown", k))
             /\ IF k < Len(tests.teardown)
                THEN pc' = pc /\ k' = k + 1
                ELSE pc' = "drop" /\ k' = 1
             /\ last_io' = io
             /\ UNCHANGED <<config, si, ui, ai, result, tests_result,
                            unit_result, child, returned, history, dirs>>

\* variant of DropTempDir: the directory is left on the disk
DropTempDir_leaking ==
    /\ pc = "drop"
    /\ UNCHANGED <<score_vars, pipe_vars>>
    /\ tmp_dir' = None
    /\ events' = Append(events, Event("drop", 0, tmp_dir.val.id))
    /\ ai' = ai + 1
    /\ pc' = "assertion"
    /\ last_io' = "none"
    /\ UNCHANGED <<config, si, ui, k, result, tests_result, unit_result, child,
                   returned, history, dirs, outside>>

\* end of the iteration: tmp_dir goes out of scope and TempDir::drop deletes
\* the directory
DropTempDir ==
    /\ pc = "drop"
    /\ UNCHANGED <<score_vars, pipe_vars>>
    /\ tmp_dir' = None
    /\ dirs' = dirs \ {tmp_dir.val.id}
    /\ events' = Append(events, Event("drop", 0, tmp_dir.val.id))
    /\ ai' = ai + 1
    /\ pc' = "assertion"
    /\ last_io' = "none"
    /\ UNCHANGED <<config, si, ui, k, result, tests_result, unit_result, child,
                   returned, history, outside>>

Next ==
    \/ StartSection
    \/ EndSection
    \/ Finish
    \/ StartUnitTest
    \/ EndUnitTest
    \/ CreateTempDir
    \/ WriteFile
    \/ RunSetup
    \/ Spawn
    \/ Wait
    \/ RunTeardown
    \/ DropTempDir

\* a run of a whole configuration
Spec == Init /\ [][Next]_vars

\* a run of a single assertion of any kind
AssertSpec == AssertInit /\ [][Next]_vars

\* a run whose commands act on files
IsolationSpec == IsolationInit /\ [][Next]_vars
EnvSpec == EnvInit /\ [][Next]_vars
ExitSpec == ExitInit /\ [][Next]_vars
WeightedSpec == WeightedInit /\ [][Next]_vars

\* a run whose target may never terminate, where the controlling thread
\* goes on whenever it can
HangSpec == HangInit /\ [][Next]_vars /\ WF_vars(Next)

(***************************************************************************)
(* Score operated on outside a run (score.rs)                              *)
(***************************************************************************)
\* the u32 values of the scores and the weights that are combined and scaled
ScoreValues == {0, 1, 2, 65536}
Scores ==
    {Absolute(b) : b \in BOOLEAN}
        \cup {Weighted(c, m) : c \in ScoreValues, m \in ScoreValues}

\* let mut score = ...: any Score, nothing else of a run exists
ScoreInit ==
    /\ config = GradingConfig_new("Weighted", <<>>)
    /\ pc = "score"
    /\ si = 1 /\ ui = 1 /\ ai = 1 /\ k = 1
    /\ result = None
    /\ tests_result = None
    /\ unit_result = None
    /\ tmp_dir = None
    /\ child = None
    /\ returned = None
    /\ history = <<>>
    /\ last_io = "none"
    /\ dirs = {}
    /\ outside = {}
    /\ events = <<>>
    /\ total \in Scores
    /\ operations = <<>>
    /\ exec = None

Operation(op, lhs, rhs) == [op |-> op, lhs |-> lhs, rhs |-> rhs]

\* score += rhs: panics on operands of different modes
AddAssign ==
    /\ pc = "score"
    /\ Len(operations) < MaxOperations
    /\ \E rhs \in Scores :
        /\ operations' = Append(operations, Operation("add_assign", total, rhs))
        /\ IF add_assign(total, rhs) = ModeMismatch
           THEN pc' = "panicked" /\ total' = total
           ELSE pc' = pc /\ total' = add_assign(total, rhs)
    /\ UNCHANGED <<config, si, ui, ai, k, result, tests_result, unit_result,
                   tmp_dir, child, returned, history, last_io, dirs, outside, events>>
    /\ UNCHANGED pipe_vars

\* score = score * rhs: a product that exceeds u32::MAX panics when the
\* build checks overflow and wraps when it does not
Mul ==
    /\ pc = "score"
    /\ Len(operations) < MaxOperations
    /\ \E rhs \in ScoreValues :
        /\ operations' = Append(operations, Operation("mul", total, rhs))
        /\ IF /\ total.tag = "Weighted"
              /\ \/ mul_overflows(total.current, rhs)
                 \/ mul_overflows(total.max, rhs)
           THEN \/ pc' = "panicked" /\ total' = total
                \/ /\ pc' = pc
                   /\ total' = Weighted(wrapping_mul(total.current, rhs),
                                        wrapping_mul(total.max, rhs))
           ELSE pc' = pc /\ total' = mul(total, rhs)
    /\ UNCHANGED <<config, si, ui, ai, k, result, tests_result, unit_result,
                   tmp_dir, child, returned, history, last_io, dirs, outside, events>>
    /\ UNCHANGED pipe_vars

ScoreNext == AddAssign \/ Mul

\* a Score that is combined and scaled
ScoreSpec == ScoreInit /\ [][ScoreNext]_vars

(***************************************************************************)
(* A target between spawn and wait_with_output: the stdin writer thread,   *)
(* the target process and the caller, with their pipes (assertion.rs)      *)
(***************************************************************************)
\* what a target does: cat copies its stdin to one of its output streams,
\* byte by byte, and exits at the end of file; ignore exits without reading
TargetKinds == {"cat", "ignore"}
Streams == {"stdout", "stderr"}

\* assertions with a stdin and with every stream a pipe
PipeAssertions ==
    {Assertion(<<1, 1, 1>>, Some(i), Some(o), Some(<<>>), Some(0), 2) :
        i \in Strings, o \in Strings}

\* the state right after thread::spawn: the writer has the whole content to
\* write, the pipes are empty, the caller enters wait_with_output
Execution(a, kind, stream) ==
    [assertion |-> a, kind |-> kind, stream |-> stream,
     writer |-> "writing", to_write |-> as_bytes(a.stdin.val),
     stdin_pipe |-> <<>>,
     target |-> "reading", held |-> <<>>,
     pipes |-> [stdout |-> <<>>, stderr |-> <<>>],
     caller |-> "reading",
     captured |-> [stdout |-> <<>>, stderr |-> <<>>],
     result |-> None]

PipeInit ==
    /\ config = GradingConfig_new("Weighted", <<>>)
    /\ pc = "pipe"
    /\ si = 1 /\ ui = 1 /\ ai = 1 /\ k = 1
    /\ result = None
    /\ tests_result = None
    /\ unit_result = None
    /\ tmp_dir = None
    /\ child = None
    /\ returned = None
    /\ history = <<>>
    /\ last_io = "none"
    /\ dirs = {}
    /\ outside = {}
    /\ events = <<>>
    /\ total = None
    /\ operations = <<>>
    /\ exec \in {Execution(a, kind, stream) :
                    a \in PipeAssertions, kind \in TargetKinds,
                    stream \in Streams}

\* stdin.write_all in the writer thread: a write of the next byte, which
\* waits while the pipe is full and fails once the target has exited
WriterWrite ==
    /\ pc = "pipe"
    /\ exec.writer = "writing"
    /\ exec.to_write # <<>>
    /\ IF exec.target = "exited"
       THEN exec' = [exec EXCEPT !.writer = "failed"]
       ELSE /\ Len(exec.stdin_pipe) < PipeCapacity
            /\ exec' = [exec EXCEPT
                          !.stdin_pipe = Append(@, Head(exec.to_write)),
                          !.to_write = Tail(@)]
    /\ UNCHANGED <<run_vars, score_vars>>

\* write_all returns Ok, the closure ends and stdin is dropped: the pipe is
\* closed
WriterClose ==
    /\ pc = "pipe"
    /\ exec.writer = "writing"
    /\ exec.to_write = <<>>
    /\ exec' = [exec EXCEPT !.writer = "closed"]
    /\ UNCHANGED <<run_vars, score_vars>>

\* the target reads a byte of its stdin
TargetRead ==
    /\ pc = "pipe"
    /\ exec.kind = "cat"
    /\ exec.target = "reading"
    /\ exec.stdin_pipe # <<>>
    /\ exec' = [exec EXCEPT !.held = <<Head(exec.stdin_pipe)>>,
                            !.stdin_pipe = Tail(@),
                            !.target = "writing"]
    /\ UNCHANGED <<run_vars, score_vars>>

\* the target writes the byte to its output stream, which waits while the
\* pipe is full
TargetWrite ==
    /\ pc = "pipe"
    /\ exec.target = "writing"
    /\ Len(exec.pipes[exec.stream]) < PipeCapacity
    /\ exec' = [exec EXCEPT !.pipes[exec.stream] = Append(@, exec.held[1]),
                            !.held = <<>>,
                            !.target = "reading"]
    /\ UNCHANGED <<run_vars, score_vars>>

\* the target exits: at the end of file of its stdin, or without reading
TargetExit ==
    /\ pc = "pipe"
    /\ exec.target = "reading"
    /\ \/ exec.kind = "ignore"
       \/ exec.stdin_pipe = <<>> /\ exec.writer # "writing"
    /\ exec' = [exec EXCEPT !.target = "exited"]
    /\ UNCHANGED <<run_vars, score_vars>>

\* variant of CallerRead: the output is read once the target has exited
CallerRead_after_exit ==
    /\ pc = "pipe"
    /\ exec.caller = "reading"
    /\ exec.target = "exited"
    /\ \E s \in Streams :
        /\ exec.pipes[s] # <<>>
        /\ exec' = [exec EXCEPT !.captured[s] = Append(@, Head(exec.pipes[s])),
                                !.pipes[s] = Tail(@)]
    /\ UNCHANGED <<run_vars, score_vars>>

\* child.wait_with_output reads whatever stdout or stderr holds
CallerRead ==
    /\ pc = "pipe"
    /\ exec.caller = "reading"
    /\ \E s \in Streams :
        /\ exec.pipes[s] # <<>>
        /\ exec' = [exec EXCEPT !.captured[s] = Append(@, Head(exec.pipes[s])),
                                !.pipes[s] = Tail(@)]
    /\ UNCHANGED <<run_vars, score_vars>>

\* variant of CallerFinish: the writer is joined, and a failed write is
\* reported as a failed wait
CallerFinish_joining_writer ==
    /\ pc = "pipe"
    /\ exec.caller = "reading"
    /\ exec.target = "exited"
    /\ exec.pipes = [stdout |-> <<>>, stderr |-> <<>>]
    /\ exec.writer # "writing"
    /\ exec' = [exec EXCEPT
          !.caller = "done",
          !.result = Some(IF exec.writer = "failed"
                          THEN wait_failed(exec.assertion)
                          ELSE completed(exec.assertion,
                                   [status |-> [code |-> Some(0)],
                                    stdout |-> exec.captured.stdout,
                                    stderr |-> exec.captured.stderr]))]
    /\ UNCHANGED <<run_vars, score_vars>>

\* child.wait_with_output returns once both streams are at their end of
\* file and the target has exited; unsafe_assert_cmd compares the output and
\* returns the result
CallerFinish ==
    /\ pc = "pipe"
    /\ exec.caller = "reading"
    /\ exec.target = "exited"
    /\ exec.pipes = [stdout |-> <<>>, stderr |-> <<>>]
    /\ exec' = [exec EXCEPT
          !.caller = "done",
          !.result = Some(completed(exec.assertion,
                                    [status |-> [code |-> Some(0)],
                                     stdout |-> exec.captured.stdout,
                                     stderr |-> exec.captured.stderr]))]
    /\ UNCHANGED <<run_vars, score_vars>>

PipeNext ==
    \/ WriterWrite
    \/ WriterClose
    \/ TargetRead
    \/ TargetWrite
    \/ TargetExit
    \/ CallerRead
    \/ CallerFinish

\* a target with a stdin, from spawn to the result
PipeSpec == PipeInit /\ [][PipeNext]_vars

\* the same, where the writer thread, the target process and the caller
\* each go on whenever they can: the operating system schedules all three
PipeFairSpec ==
    /\ PipeSpec
    /\ WF_vars(WriterWrite \/ WriterClose)
    /\ WF_vars(TargetRead \/ TargetWrite \/ TargetExit)
    /\ WF_vars(CallerRead \/ CallerFinish)

TypeOK ==
    /\ pc \in {"section", "unit_test", "assertion", "files", "setup", "spawn",
               "wait", "teardown", "drop", "done", "panicked", "score",
               "pipe"}
    /\ last_io \in {"none"} \cup IoOutcomes \cup CommandOutcomes

(***************************************************************************)
(* Views of the state used by the properties                               *)
(***************************************************************************)
\* the target executions whose process was spawned and waited on
Exited(h) == h.outcome.kind = "exited"
\* the target executions that failed before an outcome could be observed
FailedEarly(h) == h.outcome.kind \in {"spawn_err", "wait_err"}

\* the UnitTestResults a UnitTestsResult holds
UnitTestResultsOf(tr) ==
    {tr.assertions_per_executable_results[i] :
        i \in DOMAIN tr.assertions_per_executable_results}

\* the section results recorded so far
SectionResults ==
    IF result = None THEN {}
    ELSE {result.grading_section_results[i] :
            i \in DOMAIN result.grading_section_results}

\* every UnitTestResult that UnitTest::run has returned so far
CompletedUnitTestResults ==
    UNION {UnitTestResultsOf(sr.test_results.val) : sr \in SectionResults}
    \cup (IF tests_result = None THEN {} ELSE UnitTestResultsOf(tests_result))

\* the declaration a result was produced from, found by its name
DeclaredSection(sr) == config.grading_sections[sr.name[1]]
DeclaredUnitTest(utr) ==
    config.grading_sections[utr.name[1]].tests.unit_tests[utr.name[2]]

AllPassed(rs) == \A i \in DOMAIN rs : rs[i].passed
PassedWeights(rs) == [i \in DOMAIN rs |-> IF rs[i].passed THEN rs[i].weight ELSE 0]
Weights(xs) == [i \in DOMAIN xs |-> xs[i].weight]
Currents(xs) == [i \in DOMAIN xs |-> xs[i].score.current]
Maxes(xs) == [i \in DOMAIN xs |-> xs[i].score.max]

(***************************************************************************)
(* C1                                                                      *)
(***************************************************************************)
StatusMatched(a, output) ==
    a.status.some => output.status.code = Some(a.status.val)
StdoutMatched(a, output) ==
    a.stdout.some => output.stdout = as_bytes(a.stdout.val)
StderrMatched(a, output) ==
    a.stderr.some => output.stderr = as_bytes(a.stderr.val)

\* C1: for every target that was spawned and waited on, unsafe_assert_cmd
\* returns passed = true iff the exit code equals the expected status (when
\* asserted) and the captured stdout and stderr equal the expected strings
\* byte for byte (when asserted).
C1_PassedIffEveryAssertedFieldMatched ==
    \A i \in DOMAIN history :
        Exited(history[i]) =>
            (history[i].result.passed <=>
                /\ StatusMatched(history[i].assertion, history[i].outcome.output)
                /\ StdoutMatched(history[i].assertion, history[i].outcome.output)
                /\ StderrMatched(history[i].assertion, history[i].outcome.output))

\* a target exited with a non-zero code that was the expected one and wrote
\* the expected stdout, while its unasserted stderr is not looked at
C1_Witness ==
    \E i \in DOMAIN history :
        /\ Exited(history[i])
        /\ history[i].assertion.status = Some(1)
        /\ history[i].assertion.stdout = Some(<<97>>)
        /\ ~history[i].assertion.stderr.some
        /\ history[i].result.passed

(***************************************************************************)
(* C2                                                                      *)
(***************************************************************************)
\* C2: in Absolute mode a completed run of a configuration with at least one
\* assertion scores Absolute(true) at every level when every assertion
\* passed, and Absolute(false) when one failed.
C2_AbsoluteAllMustPass ==
    (returned.some /\ grading_mode = "Absolute" /\ Len(history) >= 1) =>
        /\ returned.val.score =
               Absolute(\A i \in DOMAIN history : history[i].result.passed)
        /\ \A sr \in SectionResults :
               /\ sr.score =
                      Absolute(\A utr \in UnitTestResultsOf(sr.test_results.val) :
                                   AllPassed(utr.assertion_results))
               /\ sr.test_results.val.score = sr.score
               /\ \A utr \in UnitTestResultsOf(sr.test_results.val) :
                      utr.score = Absolute(AllPassed(utr.assertion_results))

RECURSIVE FoldScores(_, _)
FoldScores(acc, scores) ==
    IF scores = <<>> THEN acc
    ELSE FoldScores(add_assign(acc, Head(scores)), Tail(scores))

FixtureFailed == last_io = "err"

\* C6: a fixture I/O failure is fatal to the run: the step it happens in
\* records no AssertionResult and ends the run without a GradingResult, and
\* nothing is executed after it.
C6_FixtureFailureIsFatal ==
    [][/\ FixtureFailed' =>
            /\ pc' = "panicked"
            /\ returned' = None
            /\ result' = None /\ tests_result' = None /\ unit_result' = None
            /\ history' = history
       /\ pc = "panicked" => UNCHANGED vars]_vars

\* a teardown command could not be launched after the assertion's target ran
C6_Witness ==
    /\ pc = "panicked"
    /\ FixtureFailed
    /\ Len(history) = 1
    /\ ui = 1 /\ ai = 1

(***************************************************************************)
(* C7                                                                      *)
(***************************************************************************)
\* where UnitTest::run stands once unsafe_assert_cmd has returned
AtTeardown ==
    IF Len(tests.teardown) > 0 THEN pc = "teardown" /\ k = 1 ELSE pc = "drop"

\* C7: a target that cannot be spawned or waited on never ends the run: the
\* step records an AssertionResult with execution_status
\* FailureBeforeExecution or FailureBeforeWait that scores 0 of its weight,
\* and goes on to the teardown commands of that assertion in its directory.
C7_TargetFailureIsRecorded ==
    [][(pc \in {"spawn", "wait"}) =>
        /\ pc' # "panicked"
        /\ Len(history') > Len(history) =>
            LET h == history'[Len(history')]
            IN  FailedEarly(h) =>
                  /\ h.result.execution_status =
                        IF h.outcome.kind = "spawn_err"
                        THEN FailureBeforeExecution ELSE FailureBeforeWait
                  /\ unit_result'.assertion_results =
                        Append(unit_result.assertion_results, h.result)
                  /\ ~h.result.passed
                  /\ h.result.weight = assertion.weight
                  /\ grading_mode = "Weighted" =>
                        unit_result'.score =
                            Weighted(unit_result.score.current,
                                     unit_result.score.max + assertion.weight)
                  /\ AtTeardown'
                  /\ tmp_dir' = tmp_dir /\ tmp_dir.some
                  /\ <<si', ui', ai'>> = <<si, ui, ai>>]_vars

\* after a target that could not be spawned, the next assertion ran, and its
\* target could not be waited on
C7_Witness ==
    /\ Len(history) = 2
    /\ history[1].outcome.kind = "spawn_err"
    /\ history[2].outcome.kind = "wait_err"
    /\ pc = "done"

(***************************************************************************)
(* C8                                                                      *)
(***************************************************************************)
\* the diagnostic a field has when nothing was obtained for it
NullDiagnostic(expected) ==
    IF expected.some THEN Some(ExpectedObtainedResult(expected.val, None))
    ELSE None

\* C8: when the target could not be spawned or waited on, passed is false,
\* every asserted field has the diagnostic (expected, obtained = None), and
\* a field that is not asserted has none.
C8_EarlyFailureDiagnostics ==
    \A i \in DOMAIN history :
        FailedEarly(history[i]) =>
            /\ ~history[i].result.passed
            /\ history[i].result.stdout_diagnostics
                   = NullDiagnostic(history[i].assertion.stdout)
            /\ history[i].result.stderr_diagnostics
                   = NullDiagnostic(history[i].assertion.stderr)
            /\ history[i].result.status_diagnostics
                   = NullDiagnostic(history[i].assertion.status)

\* the wait on a target failed for an assertion on stderr and status only
C8_Witness ==
    \E i \in DOMAIN history :
        /\ history[i].outcome.kind = "wait_err"
        /\ history[i].assertion.stderr.some
        /\ history[i].assertion.status.some
        /\ ~history[i].assertion.stdout.some

(***************************************************************************)
(* C9                                                                      *)
(***************************************************************************)
\* a diagnostic, when present, reports the expected value as obtained
Agrees(diagnostics) ==
    diagnostics.some => diagnostics.val.obtained = Some(diagnostics.val.expected)

\* C9: for every AssertionResult unsafe_assert_cmd returns, passed is true
\* iff every diagnostic that is present has obtained = Some(expected).
C9_PassedIffDiagnosticsAgree ==
    \A i \in DOMAIN history :
        history[i].result.passed <=>
            /\ Agrees(history[i].result.stdout_diagnostics)
            /\ Agrees(history[i].result.stderr_diagnostics)
            /\ Agrees(history[i].result.status_diagnostics)

(***************************************************************************)
(* C10                                                                     *)
(***************************************************************************)
\* C10 as claimed: in a completed result every AssertionResult has a
\* diagnostic for exactly the fields that were asserted, matched or not.
C10_DiagnosticForEveryAssertedField ==
    returned.some =>
        \A i \in DOMAIN history :
            /\ history[i].result.stdout_diagnostics.some
                   <=> history[i].assertion.stdout.some
            /\ history[i].result.stderr_diagnostics.some
                   <=> history[i].assertion.stderr.some
            /\ history[i].result.status_diagnostics.some
                   <=> history[i].assertion.status.some

\* the diagnostic of a field after a target that was waited on: none when
\* the field is not asserted or matched, else the expected and the obtained
MismatchDiagnostic(expected, matched, obtained) ==
    IF expected.some /\ ~matched
    THEN Some(ExpectedObtainedResult(expected.val, obtained))
    ELSE None

\* C10: every AssertionResult has diagnostics for asserted fields only: for
\* all of them, with nothing obtained, when the target could not be spawned
\* or waited on, and otherwise for exactly those that did not match, with
\* the obtained exit code (none after a signal) or the lossily decoded
\* output; a field that matched or was never asserted has no diagnostic.
C10_DiagnosticForEveryMismatchedField ==
    \A i \in DOMAIN history :
        LET a == history[i].assertion
            r == history[i].result
            out == history[i].outcome.output
        IN  IF FailedEarly(history[i])
            THEN /\ r.stdout_diagnostics = NullDiagnostic(a.stdout)
                 /\ r.stderr_diagnostics = NullDiagnostic(a.stderr)
                 /\ r.status_diagnostics = NullDiagnostic(a.status)
            ELSE /\ r.stdout_diagnostics =
                        MismatchDiagnostic(a.stdout, StdoutMatched(a, out),
                                           Some(from_utf8_lossy(out.stdout)))
                 /\ r.stderr_diagnostics =
                        MismatchDiagnostic(a.stderr, StderrMatched(a, out),
                                           Some(from_utf8_lossy(out.stderr)))
                 /\ r.status_diagnostics =
                        MismatchDiagnostic(a.status, StatusMatched(a, out),
                                           out.status.code)

\* a completed result whose assertion on all three fields matched on stdout
\* and status and did not on stderr
C10_Witness ==
    /\ returned.some
    /\ \E i \in DOMAIN history :
        /\ Exited(history[i])
        /\ history[i].assertion.stdout.some
        /\ history[i].assertion.status.some
        /\ history[i].result.stderr_diagnostics.some
        /\ ~history[i].result.stdout_diagnostics.some
        /\ ~history[i].result.status_diagnostics.some

(***************************************************************************)
(* C11                                                                     *)
(***************************************************************************)
\* the assertion declares something that can be checked
HasExpectation(a) == a.stdout.some \/ a.stderr.some \/ a.status.some

\* the optional values an assertion is constructed from
OptionalStdins == {None} \cup {Some(c) : c \in StdinContents}
OptionalStrings == {None} \cup {Some(x) : x \in Strings}
OptionalStatuses == {None} \cup {Some(c) : c \in ExpectedStatuses}

\* C11: construction of an Assertion fails exactly when stdout, stderr and
\* status are all absent, so that every Assertion that exists, and every one
\* whose target unsafe_assert_cmd spawns, has a checkable expectation.
C11_NoAssertionWithoutExpectation ==
    /\ \A i \in OptionalStdins, o \in OptionalStrings, e \in OptionalStrings,
          st \in OptionalStatuses, w \in SingleAssertionWeights :
            build(<<>>, i, o, e, st, w) =
                IF o.some \/ e.some \/ st.some
                THEN Ok(Assertion(<<>>, i, o, e, st, w))
                ELSE Err("at least one expect field must be non-null")
    /\ pc \in {"spawn", "wait"} => HasExpectation(assertion)

(***************************************************************************)
(* C12                                                                     *)
(***************************************************************************)
\* the value of the Score once the i-th operation was applied
After(i) == IF i < Len(operations) THEN operations[i + 1].lhs ELSE total
\* the i-th operation panicked
Panicked(i) == i = Len(operations) /\ pc = "panicked"
\* the i-th operation is a combination of two scores of one mode
Combination(i) ==
    /\ operations[i].op = "add_assign"
    /\ operations[i].lhs.tag = operations[i].rhs.tag

\* C12: within one mode the combination is commutative and associative:
\* a += b leaves what b += a leaves, and (a += b) += c leaves what
\* a += (b += c) leaves, for every a, b and c of one mode.
C12_CombinationIsAssociativeAndCommutative ==
    \A i \in DOMAIN operations :
        Combination(i) =>
            LET a == operations[i].lhs
                b == operations[i].rhs
            IN  /\ ~Panicked(i)
                /\ After(i) = add_assign(b, a)
                /\ (i < Len(operations) /\ Combination(i + 1)) =>
                        After(i + 1) =
                            add_assign(a, add_assign(b, operations[i + 1].rhs))

\* three different Weighted scores, unequal in current and in max, were
\* combined
C12_Witness ==
    /\ Len(operations) = 2
    /\ Combination(1) /\ Combination(2)
    /\ operations[1].lhs = Weighted(1, 2)
    /\ operations[1].rhs = Weighted(2, 65536)
    /\ operations[2].rhs = Weighted(0, 1)
    /\ total = Weighted(3, 65539)

(***************************************************************************)
(* C13                                                                     *)
(***************************************************************************)
\* C13: a combination of an Absolute with a Weighted score, in either
\* order, panics: it is the last operation, it leaves the left operand as it
\* was, and the Score never holds anything but an Absolute or a Weighted.
C13_MismatchedCombinationPanics ==
    /\ total.tag \in GradingMode
    /\ \A i \in DOMAIN operations :
        (operations[i].op = "add_assign"
            /\ operations[i].lhs.tag # operations[i].rhs.tag) =>
                /\ Panicked(i)
                /\ total = operations[i].lhs

\* an Absolute(true) was combined into the default Weighted score, after a
\* Weighted one was
C13_Witness ==
    /\ Len(operations) = 2
    /\ operations[1].op = "add_assign" /\ operations[2].op = "add_assign"
    /\ operations[1].lhs = Weighted(0, 0) /\ operations[1].rhs = Weighted(1, 2)
    /\ operations[2].lhs = Weighted(1, 2) /\ operations[2].rhs = Absolute(TRUE)
    /\ pc = "panicked"

(***************************************************************************)
(* C14                                                                     *)
(***************************************************************************)
\* the i-th operation is a scaling
Scaling(i) == operations[i].op = "mul"
\* both products of the scaling of s by w are u32 values
Fits(s, w) ==
    s.tag = "Weighted" =>
        ~mul_overflows(s.current, w) /\ ~mul_overflows(s.max, w)

\* C14 as claimed: for every weight w the scaling of Weighted{c,m} returns
\* Weighted{c*w, m*w} and the scaling of Absolute(b) returns Absolute(b).
C14_ScalingMultipliesForEveryWeight ==
    \A i \in DOMAIN operations :
        Scaling(i) =>
            LET s == operations[i].lhs
                w == operations[i].rhs
            IN  /\ ~Panicked(i)
                /\ IF s.tag = "Weighted"
                   THEN /\ Fits(s, w)
                        /\ After(i) = Weighted(s.current * w, s.max * w)
                   ELSE After(i) = Absolute(s.b)

\* C14: the scaling of Absolute(b) by any weight returns Absolute(b); the
\* scaling of Weighted{c,m} by w returns Weighted{c*w, m*w} for every w,
\* zero included, such that c*w and m*w do not exceed u32::MAX, and else
\* panics or returns the products wrapped to 32 bits; a scaling that
\* returns never changes the tag.
C14_ScalingMultipliesWithinU32 ==
    \A i \in DOMAIN operations :
        Scaling(i) =>
            LET s == operations[i].lhs
                w == operations[i].rhs
            IN  /\ ~Panicked(i) => After(i).tag = s.tag
                /\ s.tag = "Absolute" =>
                        ~Panicked(i) /\ After(i) = Absolute(s.b)
                /\ (s.tag = "Weighted" /\ Fits(s, w)) =>
                        /\ ~Panicked(i)
                        /\ After(i) = Weighted(s.current * w, s.max * w)
                /\ (~Fits(s, w) /\ ~Panicked(i)) =>
                        After(i) = Weighted(wrapping_mul(s.current, w),
                                            wrapping_mul(s.max, w))

\* a Weighted score was scaled by 2 and the product by 0
C14_Witness ==
    /\ Len(operations) = 2
    /\ Scaling(1) /\ Scaling(2)
    /\ operations[1].lhs = Weighted(2, 65536) /\ operations[1].rhs = 2
    /\ operations[2].lhs = Weighted(4, 131072) /\ operations[2].rhs = 0
    /\ total = Weighted(0, 0)

(***************************************************************************)
(* C15                                                                     *)
(***************************************************************************)
\* C15: Score::default(mode) is the identity of the combination in its
\* mode: combined with it, on the left or on the right, every score of that
\* mode is left as it is.
C15_DefaultIsIdentityOfCombination ==
    \A i \in DOMAIN operations :
        Combination(i) =>
            LET a == operations[i].lhs
                b == operations[i].rhs
            IN  /\ a = default(a.tag) => After(i) = b
                /\ b = default(b.tag) => After(i) = a

(***************************************************************************)
(* C16                                                                     *)
(***************************************************************************)
Names(xs) == [i \in DOMAIN xs |-> xs[i].name]

\* the assertions a configuration declares, in declaration order
DeclaredAssertions ==
    Flatten([s \in DOMAIN config.grading_sections |->
        Flatten([u \in DOMAIN config.grading_sections[s].tests.unit_tests |->
            config.grading_sections[s].tests.unit_tests[u].assertions])])

\* the assertion results a GradingResult holds, in the order of its lists
RecordedAssertionResults(gr) ==
    Flatten([s \in DOMAIN gr.grading_section_results |->
        LET utrs == gr.grading_section_results[s].test_results.val
                        .assertions_per_executable_results
        IN  Flatten([u \in DOMAIN utrs |-> utrs[u].assertion_results])])

\* C16: the result of a completed run lists one section result per
\* declared section, one UnitTestResult per declared UnitTest and one
\* AssertionResult per declared Assertion, each list in declaration order,
\* and the targets were executed in that order.
C16_ResultsPreserveDeclarationOrder ==
    returned.some =>
        LET srs == returned.val.grading_section_results
        IN  /\ Names(srs) = Names(config.grading_sections)
            /\ \A s \in DOMAIN srs :
                LET utrs == srs[s].test_results.val
                                .assertions_per_executable_results
                    uts == config.grading_sections[s].tests.unit_tests
                IN  /\ Names(utrs) = Names(uts)
                    /\ \A u \in DOMAIN utrs :
                           Names(utrs[u].assertion_results)
                               = Names(uts[u].assertions)
            /\ [i \in DOMAIN history |-> history[i].assertion]
                   = DeclaredAssertions
            /\ [i \in DOMAIN history |-> history[i].result]
                   = RecordedAssertionResults(returned.val)

\* a completed run of a section of two unit tests
C16_Witness ==
    /\ returned.some
    /\ Len(config.grading_sections) = 1
    /\ Len(config.grading_sections[1].tests.unit_tests) = 2
    /\ Len(history) = 2

(***************************************************************************)
(* C17                                                                     *)
(***************************************************************************)
\* the fixture names of the current section, and those Path::join resolves
\* in the working directory
Fixtures == {tests.files[i] : i \in DOMAIN tests.files}
RelativeFixtures == Fixtures \ AbsolutePaths

\* the files of a directory once every command of cmds ran in it, in order
RECURSIVE run_all_in(_, _)
run_all_in(cmds, files) ==
    IF cmds = <<>> THEN files
    ELSE run_all_in(Tail(cmds), run_in(Head(cmds), files))

\* the working directory of the current iteration was never the working
\* directory of another assertion, and no two assertions that ran shared one
FreshDirectories ==
    /\ \A i, j \in DOMAIN history : history[i].dir = history[j].dir => i = j
    /\ pc \in {"files", "setup", "spawn", "wait"} =>
           \A i \in DOMAIN history : history[i].dir # tmp_dir.val.id

\* an assertion is about to run its setup, or its target
SetupStarts == pc = "setup" /\ k = 1
TargetStarts == pc = "spawn"

RerunConfigs ==
    {GradingConfig_new(m, <<<<2, unit_tests>>>>) :
        m \in GradingMode,
        unit_tests \in {<<<<a, b>>>> : a, b \in StatusAssertions}
                         \cup {<<<<a>>, <<b>>>> : a, b \in StatusAssertions}}

RerunInit == config \in RerunConfigs /\ InitRun

\* run_assessment is called a second time on the configuration, once the
\* first call returned: its locals are new, its caller holds the first result
Rerun ==
    /\ pc = "done"
    /\ Len(history) = Len(DeclaredAssertions)
    /\ pc' = "section"
    /\ si' = 1
    /\ result' = GradingResult_new(config.grading_mode)
    /\ UNCHANGED <<config, ui, ai, k, tests_result, unit_result, tmp_dir,
                   child, returned, history, last_io, dirs, outside, events>>
    /\ UNCHANGED <<score_vars, pipe_vars>>

RerunNext == Next \/ Rerun

\* a configuration that is run twice
RerunSpec == RerunInit /\ [][RerunNext]_vars

\* the UnitTestsResult of every section of a GradingResult
TestResults(gr) ==
    [s \in DOMAIN gr.grading_section_results |->
        gr.grading_section_results[s].test_results]

\* the second run is over and each of its targets ended as in the first run
SameOutcomes ==
    LET n == Len(DeclaredAssertions)
    IN  /\ Len(history) = 2 * n
        /\ \A i \in 1..n : history[n + i].outcome = history[i].outcome

Step(t, i) ==
    LET f == Len(t.files)
        s == Len(t.setup)
    IN  IF i = 1 THEN <<"tempdir", 0>>
        ELSE IF i <= 1 + f THEN <<"write", i - 1>>
        ELSE IF i <= 1 + f + s THEN <<"setup", i - 1 - f>>
        ELSE IF i = 2 + f + s THEN <<"target", 0>>
        ELSE IF i = 3 + f + s THEN <<"record", 0>>
        ELSE IF i <= 3 + f + s + Len(t.teardown)
             THEN <<"teardown", i - 3 - f - s>>
        ELSE <<"drop", 0>>

\* C19: the events of an assertion occur in the order create the
\* directory, write every fixture file, run every setup command in declared
\* order, run the target and record its result, run every teardown command
\* in declared order, release the directory (an iteration that returns
\* early releases the directory at once and nothing follows); they all
\* belong to the same assertion and directory, and the events of the next
\* assertion start only once the directory is released.  In particular the
\* target is running only when every setup command has finished, and a
\* teardown command runs only once the result is recorded.
C19_EventsOfAnAssertionAreOrdered ==
    /\ events # <<>> =>
        LET t == config.grading_sections[events[1].assertion[1]].tests
            n == Len(events)
        IN  /\ n <= Len(t.files) + Len(t.setup) + Len(t.teardown) + 4
            /\ \A i \in 1..n :
                   /\ \/ <<events[i].op, events[i].k>> = Step(t, i)
                      \/ i = n /\ events[i].op = "drop"
                   /\ events[i].assertion = events[1].assertion
                   /\ events[i].dir = events[1].dir
            /\ tmp_dir.some <=> events[n].op # "drop"
            /\ tmp_dir.some =>
                   /\ events[1].dir = tmp_dir.val.id
                   /\ events[1].assertion = assertion.name
            /\ pc = "wait" => n = Len(t.files) + Len(t.setup) + 2
            /\ pc = "teardown" => n >= Len(t.files) + Len(t.setup) + 3
    /\ pc = "assertion" => ~tmp_dir.some

\* the second assertion of a run went through every step, two setup
\* commands among them
C19_Witness ==
    /\ Len(events) = NumFiles + NumSetup + NumTeardown + 4
    /\ NumSetup >= 2
    /\ events[1].dir = 2
    /\ events[Len(events)].op = "drop"
    /\ pc = "assertion"

(***************************************************************************)
(* C20                                                                     *)
(***************************************************************************)
\* UnitTest::run is inside an iteration of its loop, between
\* tempfile::tempdir() and the end of the body
InIteration == pc \in {"files", "setup", "spawn", "wait", "teardown", "drop"}

\* C20: at most one working directory exists at any moment, the one of the
\* iteration that is running, and none exists when UnitTest::run is not
\* inside an iteration: between two iterations, after it returned Ok, and
\* after it returned Err on a failed write, setup launch or teardown launch.
C20_DirectoriesAreReleased ==
    /\ Cardinality(dirs) <= 1
    /\ dirs = IF tmp_dir.some THEN {tmp_dir.val.id} ELSE {}
    /\ ~InIteration => dirs = {}

\* UnitTest::run returned early on a teardown command that could not be
\* launched, after the target ran in the second directory of the run
C20_Witness ==
    /\ pc = "panicked"
    /\ last_io = "err"
    /\ Len(history) = 2
    /\ events[Len(events)] = [op |-> "drop", assertion |-> history[2].assertion.name,
                               k |-> 0, dir |-> 2]
    /\ dirs = {}

(***************************************************************************)
(* C21                                                                     *)
(***************************************************************************)
\* the execution status that the way a target execution ended calls for
StatusOfOutcome(outcome) ==
    IF outcome.kind = "spawn_err" THEN FailureBeforeExecution
    ELSE IF outcome.kind = "wait_err" THEN FailureBeforeWait
    ELSE IF success(outcome.output.status) THEN Success
    ELSE IF outcome.output.status.code.some
         THEN FailureWithStatus(outcome.output.status.code.val)
    ELSE FailureWithSignalTermination

\* C21: the execution_status of every AssertionResult is the one that the
\* way the execution ended calls for, never Undefined, whatever was
\* expected and whether or not the assertion passed; a successful exit
\* where a non-zero status was expected is a Success that did not pass,
\* with the status diagnostic (expected, Some(0)).
C21_ExecutionStatusFollowsTheOutcome ==
    \A i \in DOMAIN history :
        LET a == history[i].assertion
            r == history[i].result
        IN  /\ r.execution_status # Undefined
            /\ r.execution_status = StatusOfOutcome(history[i].outcome)
            /\ (/\ Exited(history[i])
                /\ success(history[i].outcome.output.status)
                /\ a.status.some
                /\ a.status.val # 0) =>
                   /\ ~r.passed
                   /\ r.status_diagnostics =
                          Some(ExpectedObtainedResult(a.status.val, Some(0)))

\* a target exited with the non-zero code that was expected: the assertion
\* passed and its execution status is FailureWithStatus
C21_Witness ==
    \E i \in DOMAIN history :
        /\ history[i].assertion.status = Some(1)
        /\ history[i].result.passed
        /\ history[i].result.execution_status = FailureWithStatus(1)

(***************************************************************************)
(* C22                                                                     *)
(***************************************************************************)
\* the caller has its result, with everything the target wrote captured
Completed ==
    /\ exec.caller = "done"
    /\ exec.captured[exec.stream] = as_bytes(exec.assertion.stdin.val)

\* C22: with a stdin writer that runs beside wait_with_output and closes
\* the pipe after the whole content, a target that copies its stdin to an
\* output stream and exits at the end of file always leads to a completed
\* assertion with the full output captured, whatever the capacity of the
\* pipes: the writer, the target and the caller never all wait on each
\* other.
C22_EchoingTargetCompletes ==
    (pc = "pipe" /\ exec.kind = "cat") ~> Completed

\* an assertion completed whose content is larger than a pipe
C22_Witness ==
    /\ pc = "pipe"
    /\ exec.kind = "cat"
    /\ Completed
    /\ Len(exec.captured[exec.stream]) > 2 * PipeCapacity
    /\ exec.writer = "closed"

(***************************************************************************)
(* C23                                                                     *)
(***************************************************************************)
\* what the target writes in all: a cat the content of its stdin on its
\* stream, an ignore nothing
Written(s) ==
    IF exec.kind = "cat" /\ exec.stream = s
    THEN as_bytes(exec.assertion.stdin.val) ELSE <<>>

\* the result of the assertion when every write of the stdin succeeds
ResultOfTarget ==
    completed(exec.assertion,
              [status |-> [code |-> Some(0)],
               stdout |-> Written("stdout"), stderr |-> Written("stderr")])

\* C23: the result that unsafe_assert_cmd returns is the one that the
\* target's exit and output call for, whether the stdin writer has finished,
\* has failed or is still writing when the wait completes: its outcome is
\* never observed.
C23_ResultIgnoresTheWriter ==
    (pc = "pipe" /\ exec.caller = "done") =>
        /\ exec.result = Some(ResultOfTarget)
        /\ exec.result.val.execution_status = Success

\* the result was returned while the writer had not finished: the target
\* exited without reading and the writer has bytes left to write
C23_Witness ==
    /\ pc = "pipe"
    /\ exec.caller = "done"
    /\ exec.writer = "writing"
    /\ exec.to_write # <<>>
    /\ exec.result.val.passed

\* the result was returned after a write of the writer had failed
ResultAfterFailedWrite ==
    /\ pc = "pipe"
    /\ exec.caller = "done"
    /\ exec.writer = "failed"
    /\ exec.result.val.passed

(***************************************************************************)
(* C24                                                                     *)
(***************************************************************************)
\* run_assessment returned or panicked
Finished == pc \in {"done", "panicked"}

\* the caller waits for a target that never terminates
TargetHung == pc = "wait" /\ never_terminates(unit_test.executable)

\* C24: a run in which every target terminates eventually finishes, with a
\* result or with a panic; a run that waits for a target that never
\* terminates takes no further step: it never finishes and starts no other
\* assertion.
C24_RunFinishesUnlessATargetHangs ==
    /\ <>(Finished \/ TargetHung)
    /\ [][~TargetHung]_vars

\* the run waits for the first target, which never terminates, with another
\* assertion to run after it
C24_Witness ==
    /\ TargetHung
    /\ Len(history) = 0
    /\ Len(unit_test.assertions) = 2

(***************************************************************************)
(* C25: environment and working directory of the commands of an iteration  *)
(***************************************************************************)
\* the launches among the steps of the current iteration
Launches ==
    {i \in 1..Len(events) : events[i].op \in {"setup", "target", "teardown"}}

\* the last explicit pair of the envs of tests t for a key, if any
ExplicitPairs(t, key) == {j \in 1..Len(t.envs) : t.envs[j][1] = key}
LastExplicit(t, key) ==
    CHOOSE j \in ExplicitPairs(t, key) : \A l \in ExplicitPairs(t, key) : l <= j

\* the environment tests t declare: an explicit value for a key that envs
\* names, otherwise the parent's value if it is inherited, otherwise none
DeclaredEnv(t) ==
    [key \in EnvKeys |->
        IF ExplicitPairs(t, key) # {} THEN Some(t.envs[LastExplicit(t, key)][2])
        ELSE IF t.inherited_parent_envs THEN ParentEnv[key]
        ELSE None]

\* the tests that declare the assertion a step is about
TestsOf(event) == config.grading_sections[event.assertion[1]].tests

LaunchesShareDirectoryAndEnv ==
    \A i \in Launches :
        /\ events[1].op = "tempdir"
        /\ events[i].dir = events[1].dir
        /\ events[i].env = DeclaredEnv(TestsOf(events[i]))

\* C25: every setup command, the target and every teardown command of one
\* iteration are launched in the iteration's fresh directory with the same
\* environment (the parent's if it is inherited, otherwise empty, with every
\* explicit pair of envs applied and the explicit value winning a clash),
\* and no step of a run changes the configured envs
C25_CommandsShareDirectoryAndEnv ==
    /\ []LaunchesShareDirectoryAndEnv
    /\ [][config'.grading_sections[1].tests.envs
             = config.grading_sections[1].tests.envs]_vars

\* a teardown command launched after a setup command and the target, with
\* an explicit PATH that clashes with the inherited one
C25_Witness ==
    /\ \E i \in Launches : \E t \in Launches : \E d \in Launches :
          /\ events[i].op = "setup" /\ events[t].op = "target"
          /\ events[d].op = "teardown"
          /\ TestsOf(events[d]).inherited_parent_envs
          /\ events[d].env["PATH"] = Some("v1")

(***************************************************************************)
(* C26: every stored score carries the mode of the configuration           *)
(***************************************************************************)
HasMode(x) == x.score.tag = grading_mode

\* a UnitTestsResult and every UnitTestResult in it carry the mode
TestsHaveMode(tr) ==
    /\ HasMode(tr)
    /\ \A i \in DOMAIN tr.assertions_per_executable_results :
          HasMode(tr.assertions_per_executable_results[i])

\* a GradingResult and everything below it carry the mode
GradingResultHasMode(gr) ==
    /\ HasMode(gr)
    /\ \A i \in DOMAIN gr.grading_section_results :
          /\ HasMode(gr.grading_section_results[i])
          /\ gr.grading_section_results[i].test_results.some =>
                TestsHaveMode(gr.grading_section_results[i].test_results.val)

\* C26: in every state of a run of a configuration of grading mode M, the
\* score of every UnitTestResult, UnitTestsResult, section result and
\* GradingResult, being built or returned, has the tag of M, and a run
\* panics only on a fixture failure, never on a combination of scores of
\* different modes.
C26_EveryScoreCarriesTheMode ==
    /\ unit_result # None => HasMode(unit_result)
    /\ tests_result # None => TestsHaveMode(tests_result)
    /\ result # None => GradingResultHasMode(result)
    /\ returned.some => GradingResultHasMode(returned.val)
    /\ pc = "panicked" => FixtureFailed

\* an Absolute run returned the results of two sections of one assertion each
C26_Witness ==
    /\ pc = "done"
    /\ grading_mode = "Absolute"
    /\ Len(returned.val.grading_section_results) = 2
    /\ \A i \in 1..2 :
          \E utr \in UnitTestResultsOf(
                        returned.val.grading_section_results[i].test_results.val) :
              Len(utr.assertion_results) = 1

(***************************************************************************)
(* C27: what add_assertion_result conjoins in Absolute mode                *)
(***************************************************************************)
\* the value add_assertion_result and-s into an Absolute score for r: the
\* score it leaves when the running score is true
Conjoined(r) ==
    add_assertion_result(
        [name |-> r.name, score |-> Absolute(TRUE), assertion_results |-> <<>>],
        r).score.b

\* C27: in Absolute mode the value that add_assertion_result and-s into the
\* running score for an AssertionResult r of any weight, 0 included, is
\* true iff r.passed.
C27_AbsoluteConjoinsThePassFlag ==
    (grading_mode = "Absolute" /\ unit_result # None) =>
        \A i \in DOMAIN unit_result.assertion_results :
            Conjoined(unit_result.assertion_results[i])
                = unit_result.assertion_results[i].passed

(***************************************************************************)
(* C28: the exit status of a setup or teardown command is ignored          *)
(***************************************************************************)
\* where UnitTest::run goes after the k-th command of a list that ends
\* before the position after
Advanced(commands, after) ==
    IF k < Len(commands) THEN pc' = pc /\ k' = k + 1
    ELSE pc' = after /\ k' = 1

\* C28: a step of the setup or teardown loop ends the run only when its
\* command could not be launched (or its output not collected); a command
\* that was launched and exited with a failure or was killed by a signal
\* is followed by the next command of its list, the target after the last
\* setup command, and changes no score and no AssertionResult.
C28_ExitStatusOfFixtureCommandsIsIgnored ==
    [][(pc \in {"setup", "teardown"}) =>
        /\ pc' = "panicked" <=> last_io' = "err"
        /\ last_io' \in {"exit_success", "exit_failure", "signal"} =>
            /\ IF pc = "setup" THEN Advanced(tests.setup, "spawn")
               ELSE Advanced(tests.teardown, "drop")
            /\ UNCHANGED <<result, tests_result, unit_result, history>>]_vars

\* the last teardown command of an assertion that passed was killed by a
\* signal, and the unit test still holds the assertion's full score
C28_Witness ==
    /\ pc = "drop"
    /\ last_io = "signal"
    /\ Len(history) = 1
    /\ history[1].result.passed
    /\ unit_result.score = Weighted(2, 2)

(***************************************************************************)
(* C29: an abnormal end of the target                                      *)
(***************************************************************************)
\* the execution status of a target that did not exit successfully
AbnormalStatus(status) ==
    IF status.code.some THEN FailureWithStatus(status.code.val)
    ELSE FailureWithSignalTermination

\* C29: when no status is asserted, a target that exits with a non-zero
\* code or is terminated by a signal passes with its full weight whenever
\* every asserted stdout and stderr matches, with execution_status
\* FailureWithStatus(code) or FailureWithSignalTermination and no
\* diagnostic; when a status is asserted, a target that a signal terminated
\* never passes and has the status diagnostic (expected, None).
C29_AbnormalEndAloneDoesNotFail ==
    \A i \in DOMAIN history :
        LET a == history[i].assertion
            r == history[i].result
            output == history[i].outcome.output
        IN  (Exited(history[i]) /\ ~success(output.status)) =>
              /\ (/\ ~a.status.some
                  /\ StdoutMatched(a, output)
                  /\ StderrMatched(a, output)) =>
                    /\ r.passed
                    /\ score(r) = a.weight
                    /\ r.execution_status = AbnormalStatus(output.status)
                    /\ r.stdout_diagnostics = None
                    /\ r.stderr_diagnostics = None
                    /\ r.status_diagnostics = None
              /\ (a.status.some /\ ~output.status.code.some) =>
                    /\ ~r.passed
                    /\ r.status_diagnostics =
                           Some(ExpectedObtainedResult(a.status.val, None))

\* a target that a signal terminated after it wrote the expected stdout
\* passed an assertion of no status
C29_Witness ==
    \E i \in DOMAIN history :
        /\ Exited(history[i])
        /\ ~history[i].outcome.output.status.code.some
        /\ ~history[i].assertion.status.some
        /\ history[i].assertion.stdout = Some(<<97>>)
        /\ history[i].result.passed
        /\ history[i].result.execution_status = FailureWithSignalTermination

(***************************************************************************)
(* C30: current <= max at every level of a Weighted result                 *)
(***************************************************************************)
\* every assertion of non-zero weight recorded in a UnitTestResult, and in
\* every UnitTestResult of a UnitTestsResult, passed
EveryWeighedAssertionPassed(utr) ==
    \A i \in DOMAIN utr.assertion_results :
        utr.assertion_results[i].weight # 0 => utr.assertion_results[i].passed
EveryWeighedAssertionOfTestsPassed(tr) ==
    \A i \in DOMAIN tr.assertions_per_executable_results :
        EveryWeighedAssertionPassed(tr.assertions_per_executable_results[i])

\* a score is within its maximum, and at it exactly when full holds
Within(x, full) ==
    /\ x.score.current <= x.score.max
    /\ x.score.current = x.score.max <=> full

\* the levels of a UnitTestsResult
TestsWithin(tr) ==
    /\ Within(tr, EveryWeighedAssertionOfTestsPassed(tr))
    /\ \A i \in DOMAIN tr.assertions_per_executable_results :
          Within(tr.assertions_per_executable_results[i],
                 EveryWeighedAssertionPassed(
                     tr.assertions_per_executable_results[i]))

\* a section of weight 0 holds no assertion that counts
SectionIsFull(sr) ==
    DeclaredSection(sr).weight # 0 =>
        EveryWeighedAssertionOfTestsPassed(sr.test_results.val)

\* the levels of a GradingResult
GradingResultWithin(gr) ==
    /\ Within(gr, \A i \in DOMAIN gr.grading_section_results :
                      SectionIsFull(gr.grading_section_results[i]))
    /\ \A i \in DOMAIN gr.grading_section_results :
          /\ Within(gr.grading_section_results[i],
                    SectionIsFull(gr.grading_section_results[i]))
          /\ TestsWithin(gr.grading_section_results[i].test_results.val)

\* C30: in Weighted mode (no sum or product leaves u32 here) every score
\* stored at any level of the results, at any point of a run, has
\* current <= max, with equality exactly when every assertion of non-zero
\* weight recorded below that level, in a section of non-zero weight,
\* passed.
C30_WeightedCurrentIsWithinMax ==
    /\ unit_result # None =>
          Within(unit_result, EveryWeighedAssertionPassed(unit_result))
    /\ tests_result # None => TestsWithin(tests_result)
    /\ result # None => GradingResultWithin(result)
    /\ returned.some => GradingResultWithin(returned.val)

\* a returned result whose section of weight 2 holds a failed assertion of
\* weight 2 and a passed one: 4 of 8
C30_Witness ==
    /\ returned.some
    /\ returned.val.score = Weighted(4, 8)
    /\ Len(returned.val.grading_section_results) = 1
    /\ \E i \in DOMAIN history : ~history[i].result.passed
    /\ \E i \in DOMAIN history : history[i].result.passed


=============================================================================
